---------------------------- MODULE Spec2Model ----------------------------
(* Net (net.c): level generation (new_game), the connectivity solver      *)
(* (compute_active) and the move engine (make_move), as a state machine.  *)
EXTENDS Integers, Sequences, FiniteSets, TLC

(* ---------------------------------------------------------------------- *)
(* Bounds of the model                                                    *)
(* ---------------------------------------------------------------------- *)
\* SpecGen explores every grid with at most GenMaxCells cells
GenMaxCells == 9
\* free-running random source: grids with at most FreeMaxCells cells
FreeMaxCells == 2
\* seeded random source: grids with at most SeedMaxCells cells, of width
\* and height at most SeedMaxSide
SeedMaxCells == 9
SeedMaxSide == 3
\* seeds 0 .. NSeeds-1
NSeeds == 3
\* number of make_move calls explored after new_game returns
MaxMoves == 2
\* the lock round trip (four more calls) is tried from every state at most
\* RoundTripDepth calls of make_move after new_game returned
RoundTripDepth == 1

(* ---------------------------------------------------------------------- *)
(* Direction and other bitfields; rotations (net.c 25-52)                 *)
(* ---------------------------------------------------------------------- *)
R == 1
U == 2
L == 4
D == 8
LOCKED == 16
ACTIVE == 32

TILE_SIZE == 32
TILE_BORDER == 1
WINDOW_OFFSET == 16

Dirs == <<R, U, L, D>>

\* (v & b) != 0 for a one-bit value b
HasBit(v, b) == (v \div b) % 2 = 1
\* v | b for a one-bit value b
OrBit(v, b) == IF HasBit(v, b) THEN v ELSE v + b
\* v ^ b for a one-bit value b
XorBit(v, b) == IF HasBit(v, b) THEN v - b ELSE v + b

A(x) == ((x % 8) * 2) + ((x \div 8) % 2)
C(x) == ((x % 16) \div 2) + ((x % 2) * 8)
F(x) == ((x % 16) \div 4) + ((x % 4) * 4)
\* faulty variant of ROT: one anticlockwise turn does not carry the bit
\* shifted out of D round to R
ROT_NoCarry(x, n) == IF n % 4 = 0 THEN x
                     ELSE IF n % 4 = 1 THEN (x % 8) * 2
                     ELSE IF n % 4 = 2 THEN F(x) ELSE C(x)

ROT(x, n) == IF n % 4 = 0 THEN x
             ELSE IF n % 4 = 1 THEN A(x)
             ELSE IF n % 4 = 2 THEN F(x) ELSE C(x)

X(d) == IF d = R THEN 1 ELSE IF d = L THEN -1 ELSE 0
Y(d) == IF d = D THEN 1 ELSE IF d = U THEN -1 ELSE 0

COUNT(x) == ((x \div 8) % 2) + ((x \div 4) % 2) + ((x \div 2) % 2) + (x % 2)

(* ---------------------------------------------------------------------- *)
(* State                                                                  *)
(* ---------------------------------------------------------------------- *)
VARIABLES
    width, height, wrapping,   \* game_params / game_state dimensions
    prob,                      \* barrier_probability as <<num, den>>
    rs,                        \* random_state: [seed, pos]
    pc,                        \* position in new_game / the midend
    tiles, barriers,           \* game_state arrays, index y*width+x
    completed, last_rotate_dir,
    possibilities,             \* frontier tree of new_game
    candidates,                \* tree of possible barrier locations
    nbarriers,                 \* barriers still to place
    pos,                       \* index of the shuffle loop
    unshuffled,                \* the grid as generated, before the shuffle
    button, mx, my,            \* arguments of the last make_move call
    ret,                       \* what the last make_move call returned
    nmoves,                    \* number of make_move calls so far
    states,                    \* the game states the midend holds, oldest
                               \* first; the last one is the current state
    first,                     \* what an earlier call of new_game returned
    iterations,                \* iterations of the generation loop so far
    fill                       \* the call of compute_active by game_redraw:
                               \* its active array and todo tree, the
                               \* number of squares examined and how often
                               \* each square was added to todo

\* decanting.c (src/unnamed/part_000)
VARIABLES
    params,                    \* game_params: ncolours, ntubes, nlayers
    desc,                      \* the game description, a sequence of
                               \* characters without the final NUL
    decant,                    \* the current game_state: solved, tubes
    ui,                        \* game_ui: selected
    ds,                        \* game_drawstate: tilesize
    dpc,                       \* position in the midend
    start,                     \* the state new_game built
    last,                      \* the last call made and what it returned
    nclicks                    \* number of calls made so far

vars == <<width, height, wrapping, prob, rs, pc, tiles, barriers, completed,
          last_rotate_dir, possibilities, candidates, nbarriers, pos,
          unshuffled, button, mx, my, ret, nmoves, states, first,
          iterations, fill,
          params, desc, decant, ui, ds, dpc, start, last, nclicks>>

\* the variables of decanting.c and those of net.c
decanting == <<params, desc, decant, ui, ds, dpc, start, last, nclicks>>
net == <<width, height, wrapping, prob, rs, pc, tiles, barriers, completed,
         last_rotate_dir, possibilities, candidates, nbarriers, pos,
         unshuffled, button, mx, my, ret, nmoves, states, first,
         iterations, fill>>

\* decanting is not running
NoDecanting ==
    /\ params = << >>
    /\ desc = << >>
    /\ decant = << >>
    /\ ui = << >>
    /\ ds = << >>
    /\ dpc = "off"
    /\ start = << >>
    /\ last = << >>
    /\ nclicks = 0

\* struct game_state (net.c 64-71): the fields that change, and the
\* identity of its two arrays: each snewn gives an array of its own, and
\* the n-th state made has the arrays numbered n.  The state new_game
\* returns is number 0.
game_state(t, b, c, l, n) ==
    [tiles |-> t, barriers |-> b, completed |-> c, last_rotate_dir |-> l,
     tiles_at |-> n, barriers_at |-> n]

cx == width \div 2
cy == height \div 2

NCells == width * height
Cells == 0 .. (NCells - 1)
index(x, y) == y * width + x
CellX(c) == c % width
CellY(c) == c \div width

tile(x, y) == tiles[index(x, y)]
barrier(x, y) == barriers[index(x, y)]

\* OFFSET(x2,y2,x1,y1,dir,state): the neighbour, modulo width and height
OFFSET(x1, y1, dir) ==
    <<(x1 + width + X(dir)) % width, (y1 + height + Y(dir)) % height>>

\* xyd_cmp: order by x, then y, then direction
xyd_cmp(a, b) ==
    IF a[1] < b[1] THEN -1
    ELSE IF a[1] > b[1] THEN 1
    ELSE IF a[2] < b[2] THEN -1
    ELSE IF a[2] > b[2] THEN 1
    ELSE IF a[3] < b[3] THEN -1
    ELSE IF a[3] > b[3] THEN 1
    ELSE 0

\* the position of element e in the sorted tree t (delpos234 takes the
\* element whose position is the index it is given)
pos234(t, e) == Cardinality({f \in t : xyd_cmp(f, e) < 0})

(* ---------------------------------------------------------------------- *)
(* The random source.  seed = -1 is a source about which nothing is       *)
(* assumed (every draw can be any value in range); a seed >= 0 is a       *)
(* deterministic stream.                                                  *)
(* ---------------------------------------------------------------------- *)
random_bits(seed, k) ==
    ((seed + 1) * (k + 3) * 7 + seed * k * k + 5 * k + (k \div 3) * 11) % 60

random_upto(n) ==
    IF rs.seed < 0 THEN 0 .. (n - 1)
    ELSE {random_bits(rs.seed, rs.pos) % n}

random_next ==
    IF rs.seed < 0 THEN rs ELSE [rs EXCEPT !.pos = @ + 1]

\* a newly seeded source is at the start of the stream of its seed
random_init(seed) == [seed |-> seed, pos |-> 0]

(* ---------------------------------------------------------------------- *)
(* new_game                                                               *)
(* ---------------------------------------------------------------------- *)
Blank == [c \in Cells |-> 0]

\* faulty variant of BorderBarrier: the last row and the last column get
\* no barrier
BorderBarrier_TopLeft(c) ==
    LET b1 == IF CellY(c) = 0 THEN OrBit(0, U) ELSE 0
    IN  IF CellX(c) = 0 THEN OrBit(b1, L) ELSE b1

\* faulty variant of BorderBarrier: the first row and the first column
\* get no barrier
BorderBarrier_BottomRight(c) ==
    LET b1 == IF CellY(c) = height - 1 THEN OrBit(0, D) ELSE 0
    IN  IF CellX(c) = width - 1 THEN OrBit(b1, R) ELSE b1

\* net.c 237-249: border barriers of a non-wrapping game
BorderBarrier(c) ==
    LET x == CellX(c)
        y == CellY(c)
        b1 == IF y = 0 THEN OrBit(0, U) ELSE 0
        b2 == IF y = height - 1 THEN OrBit(b1, D) ELSE b1
        b3 == IF x = 0 THEN OrBit(b2, L) ELSE b2
        b4 == IF x = width - 1 THEN OrBit(b3, R) ELSE b3
    IN  b4

\* faulty variant of InitialPossibilities: in a wrapping grid no edge is
\* left out
InitialPossibilities_Wrapping ==
    (IF wrapping \/ cx + 1 < width THEN {<<cx, cy, R>>} ELSE {}) \cup
    (IF wrapping \/ cy - 1 >= 0 THEN {<<cx, cy, U>>} ELSE {}) \cup
    (IF wrapping \/ cx - 1 >= 0 THEN {<<cx, cy, L>>} ELSE {}) \cup
    (IF wrapping \/ cy + 1 < height THEN {<<cx, cy, D>>} ELSE {})

\* net.c 298-307: the edges leaving the centre
InitialPossibilities ==
    (IF cx + 1 < width THEN {<<cx, cy, R>>} ELSE {}) \cup
    (IF cy - 1 >= 0 THEN {<<cx, cy, U>>} ELSE {}) \cup
    (IF cx - 1 >= 0 THEN {<<cx, cy, L>>} ELSE {}) \cup
    (IF cy + 1 < height THEN {<<cx, cy, D>>} ELSE {})

InitParams(maxside, maxcells, seeds) ==
    /\ width \in 1 .. maxside
    /\ height \in 1 .. maxside
    /\ width * height <= maxcells
    /\ ~(width = 1 /\ height = 1)
    /\ wrapping \in BOOLEAN
    /\ rs \in [seed : seeds, pos : {0}]

InitRest ==
    /\ pc = "new_game"
    /\ tiles = << >>
    /\ barriers = << >>
    /\ completed = FALSE
    /\ last_rotate_dir = 1
    /\ possibilities = {}
    /\ candidates = {}
    /\ nbarriers = 0
    /\ pos = 0
    /\ unshuffled = << >>
    /\ button = "NONE"
    /\ mx = 0
    /\ my = 0
    /\ ret = "NONE"
    /\ nmoves = 0
    /\ states = << >>
    /\ first = << >>
    /\ iterations = 0
    /\ fill = << >>
    /\ NoDecanting

\* faulty variant of NewGame: the random source is not seeded anew
NewGame_NoSeed ==
    /\ pc = "new_game"
    /\ IF width > 0 /\ height > 0 /\ (width > 1 \/ height > 1)
       THEN /\ pc' = "generate"
            /\ tiles' = Blank
            /\ barriers' = IF wrapping THEN Blank
                           ELSE [c \in Cells |-> BorderBarrier(c)]
            /\ last_rotate_dir' = 1
            /\ completed' = FALSE
            /\ possibilities' = InitialPossibilities
            /\ iterations' = 0
       ELSE /\ pc' = "abort"
            /\ UNCHANGED <<tiles, barriers, last_rotate_dir, completed,
                           possibilities, iterations>>
    /\ UNCHANGED <<width, height, wrapping, prob, rs, candidates, nbarriers,
                   pos, unshuffled, button, mx, my, ret, nmoves,
                   states, first, fill,
                   decanting>>

\* net.c 218-254, 298-307
NewGame ==
    /\ pc = "new_game"
    /\ IF width > 0 /\ height > 0 /\ (width > 1 \/ height > 1)
       THEN /\ pc' = "generate"
            /\ rs' = random_init(rs.seed)
            /\ tiles' = Blank
            /\ barriers' = IF wrapping THEN Blank
                           ELSE [c \in Cells |-> BorderBarrier(c)]
            /\ last_rotate_dir' = 1
            /\ completed' = FALSE
            /\ possibilities' = InitialPossibilities
            /\ iterations' = 0
       ELSE /\ pc' = "abort"
            /\ UNCHANGED <<rs, tiles, barriers, last_rotate_dir, completed,
                           possibilities, iterations>>
    /\ UNCHANGED <<width, height, wrapping, prob, candidates, nbarriers,
                   pos, unshuffled, button, mx, my, ret, nmoves,
                   states, first, fill,
                   decanting>>

\* faulty variant of RemoveLast: the last possibility of a T-piece stays
RemoveLast_Never(p, t, x1, y1) == p

\* faulty variant of RemoveLast: a tile with two connections, not three,
\* already loses its remaining possibilities
RemoveLast_Pair(p, t, x1, y1) ==
    IF COUNT(t[index(x1, y1)]) >= 2
    THEN p \ {<<x1, y1, d>> : d \in {R, U, L, D}}
    ELSE p

\* net.c 339-360: after a T-piece, its last possibility is removed
RemoveLast(p, t, x1, y1) ==
    IF COUNT(t[index(x1, y1)]) = 3
    THEN p \ {<<x1, y1, 15 - (t[index(x1, y1)] % 16)>>}
    ELSE p

\* faulty variant of PointingAt: no possibility is removed
PointingAt_None(x2, y2) == {}

\* net.c 362-387: possibilities pointing at the tile just moved into
PointingAt(x2, y2) ==
    {<<OFFSET(x2, y2, Dirs[k])[1], OFFSET(x2, y2, Dirs[k])[2], F(Dirs[k])>> :
        k \in 1 .. 4}

\* faulty variant of MovingOut: the loop over d stops before D
MovingOut_NoD(t, x2, y2, d2) ==
    {<<x2, y2, d>> : d \in
       {d \in {R, U, L} :
          /\ d # d2
          /\ wrapping \/ ~ \/ (d = U /\ y2 = 0)
                           \/ (d = L /\ x2 = 0)
                           \/ (d = R /\ x2 = width - 1)
          /\ t[index(OFFSET(x2, y2, d)[1], OFFSET(x2, y2, d)[2])] = 0}}

\* faulty variant of MovingOut: the edge of a grid that does not wrap is
\* not tested
MovingOut_Across(t, x2, y2, d2) ==
    {<<x2, y2, d>> : d \in
       {d \in {R, U, L, D} :
          /\ d # d2
          /\ t[index(OFFSET(x2, y2, d)[1], OFFSET(x2, y2, d)[2])] = 0}}

\* net.c 389-420: possibilities for moving out of the tile just moved into
MovingOut(t, x2, y2, d2) ==
    {<<x2, y2, d>> : d \in
       {d \in {R, U, L, D} :
          /\ d # d2
          /\ wrapping \/ ~ \/ (d = U /\ y2 = 0)
                           \/ (d = D /\ y2 = height - 1)
                           \/ (d = L /\ x2 = 0)
                           \/ (d = R /\ x2 = width - 1)
          /\ t[index(OFFSET(x2, y2, d)[1], OFFSET(x2, y2, d)[2])] = 0}}

\* net.c 309-421: one iteration of the generation loop
GenStep ==
    /\ pc = "generate"
    /\ Cardinality(possibilities) > 0
    /\ \E xyd \in possibilities :
         /\ pos234(possibilities, xyd) \in
                random_upto(Cardinality(possibilities))
         /\ LET x1 == xyd[1]
                y1 == xyd[2]
                d1 == xyd[3]
                o == OFFSET(x1, y1, d1)
                x2 == o[1]
                y2 == o[2]
                d2 == F(d1)
                t1 == [tiles EXCEPT ![index(x1, y1)] = OrBit(@, d1)]
                t2 == [t1 EXCEPT ![index(x2, y2)] = OrBit(@, d2)]
                p1 == possibilities \ {xyd}
                p2 == RemoveLast(p1, t2, x1, y1)
                p3 == p2 \ PointingAt(x2, y2)
                p4 == p3 \cup MovingOut(t2, x2, y2, d2)
            IN  IF t1[index(x2, y2)] = 0
                THEN /\ tiles' = t2
                     /\ possibilities' = p4
                     /\ pc' = "generate"
                ELSE /\ tiles' = t1
                     /\ possibilities' = p1
                     /\ pc' = "abort"
    /\ rs' = random_next
    /\ iterations' = iterations + 1
    /\ UNCHANGED <<width, height, wrapping, prob, barriers, completed,
                   last_rotate_dir, candidates, nbarriers, pos, unshuffled,
                   button, mx, my, ret, nmoves,
                   states, first, fill,
                   decanting>>

\* faulty variant of BarrierLocations: edges that carry a connection are
\* not left out
BarrierLocations_All ==
    {<<CellX(c), CellY(c), R>> : c \in
        {c \in Cells : wrapping \/ CellX(c) < width - 1}}
    \cup
    {<<CellX(c), CellY(c), D>> : c \in
        {c \in Cells : wrapping \/ CellY(c) < height - 1}}

\* net.c 426-440: the possible barrier locations
BarrierLocations ==
    {<<CellX(c), CellY(c), R>> : c \in
        {c \in Cells : /\ ~HasBit(tiles[c], R)
                       /\ (wrapping \/ CellX(c) < width - 1)}}
    \cup
    {<<CellX(c), CellY(c), D>> : c \in
        {c \in Cells : /\ ~HasBit(tiles[c], D)
                       /\ (wrapping \/ CellY(c) < height - 1)}}

\* net.c 422-440: the loop has ended
GenDone ==
    /\ pc = "generate"
    /\ Cardinality(possibilities) = 0
    /\ candidates' = BarrierLocations
    /\ unshuffled' = tiles
    /\ pos' = 0
    /\ pc' = "shuffle"
    /\ UNCHANGED <<width, height, wrapping, prob, rs, tiles, barriers,
                   completed, last_rotate_dir, possibilities, nbarriers,
                   button, mx, my, ret, nmoves,
                   states, first,
                   iterations, fill,
                   decanting>>

\* C integer division and remainder (truncation towards zero)
CDiv(a, b) == IF a >= 0 THEN a \div b ELSE -((-a) \div b)
CMod(a, b) == a - b * CDiv(a, b)

\* faulty variant of BarrierCount: the product is rounded to the nearest
\* integer
BarrierCount_Round(p, count) == (2 * p[1] * count + p[2]) \div (2 * p[2])

\* faulty variant of BarrierCount: the number of locations left free
BarrierCount_Complement(p, count) == count - (p[1] * count) \div p[2]

\* net.c 467: (int)(barrier_probability * count234(barriers)); the
\* probability p is the fraction p[1] / p[2], the cast truncates towards
\* zero
BarrierCount(p, count) == CDiv(p[1] * count, p[2])

\* faulty variant of Shuffle: the barriers are chosen before the shuffle,
\* whose draws then come after theirs in the stream
Shuffle_AfterBarriers ==
    /\ pc = "shuffle"
    /\ pos < NCells
    /\ \E rot \in {random_bits(rs.seed, rs.pos + BarrierCount(prob,
                        Cardinality(candidates))) % 4} :
         tiles' = [tiles EXCEPT ![pos] = ROT(@, rot)]
    /\ pos' = pos + 1
    /\ rs' = random_next
    /\ UNCHANGED <<width, height, wrapping, prob, pc, barriers, completed,
                   last_rotate_dir, possibilities, candidates, nbarriers,
                   unshuffled, button, mx, my, ret, nmoves,
                   states, first,
                   iterations, fill,
                   decanting>>

\* net.c 445-451: one iteration of the shuffle loop (y outer, x inner)
Shuffle ==
    /\ pc = "shuffle"
    /\ pos < NCells
    /\ \E rot \in random_upto(4) :
         tiles' = [tiles EXCEPT ![pos] = ROT(@, rot)]
    /\ pos' = pos + 1
    /\ rs' = random_next
    /\ UNCHANGED <<width, height, wrapping, prob, pc, barriers, completed,
                   last_rotate_dir, possibilities, candidates, nbarriers,
                   unshuffled, button, mx, my, ret, nmoves,
                   states, first,
                   iterations, fill,
                   decanting>>

\* net.c 467-468: the number of barriers to place
CountBarriers ==
    /\ pc = "shuffle"
    /\ pos = NCells
    /\ nbarriers' = BarrierCount(prob, Cardinality(candidates))
    /\ pc' = IF nbarriers' >= 0 /\ nbarriers' <= Cardinality(candidates)
             THEN "barriers" ELSE "abort"
    /\ UNCHANGED <<width, height, wrapping, prob, rs, tiles, barriers,
                   completed, last_rotate_dir, possibilities, candidates,
                   pos, unshuffled, button, mx, my, ret, nmoves,
                   states, first,
                   iterations, fill,
                   decanting>>

\* faulty variant of SetBarrier: only the half-edge of the cell picked
SetBarrier_OneSide(b, xyd) ==
    [b EXCEPT ![index(xyd[1], xyd[2])] = OrBit(@, xyd[3])]

\* net.c 488-492: both half-edges of a barrier
SetBarrier(b, xyd) ==
    LET x1 == xyd[1]
        y1 == xyd[2]
        d1 == xyd[3]
        o == OFFSET(x1, y1, d1)
        d2 == F(d1)
        b1 == [b EXCEPT ![index(x1, y1)] = OrBit(@, d1)]
    IN  [b1 EXCEPT ![index(o[1], o[2])] = OrBit(@, d2)]

\* net.c 470-495: one iteration of the barrier loop
PlaceBarrier ==
    /\ pc = "barriers"
    /\ nbarriers > 0
    /\ \E xyd \in candidates :
         /\ pos234(candidates, xyd) \in random_upto(Cardinality(candidates))
         /\ candidates' = candidates \ {xyd}
         /\ barriers' = SetBarrier(barriers, xyd)
    /\ nbarriers' = nbarriers - 1
    /\ rs' = random_next
    /\ UNCHANGED <<width, height, wrapping, prob, pc, tiles, completed,
                   last_rotate_dir, possibilities, pos, unshuffled, button,
                   mx, my, ret, nmoves,
                   states, first,
                   iterations, fill,
                   decanting>>

InGrid(x, y) == x >= 0 /\ x < width /\ y >= 0 /\ y < height

\* net.c 517-553: the corner flags that barrier dir of cell (x, y) gives
CornerDir(b, x, y, dir) ==
    LET dir2 == A(dir)
        x1 == x + X(dir)
        y1 == y + Y(dir)
        x2 == x + X(dir2)
        y2 == y + Y(dir2)
        x3 == x + X(dir) + X(dir2)
        y3 == y + Y(dir) + Y(dir2)
        corner ==
            \/ HasBit(b[index(x, y)], dir2)
            \/ InGrid(x1, y1) /\ HasBit(b[index(x1, y1)], dir2)
            \/ InGrid(x2, y2) /\ HasBit(b[index(x2, y2)], dir)
        c0 == [b EXCEPT ![index(x, y)] = OrBit(@, dir * 16)]
        c1 == IF InGrid(x1, y1)
              THEN [c0 EXCEPT ![index(x1, y1)] = OrBit(@, A(dir) * 16)]
              ELSE c0
        c2 == IF InGrid(x2, y2)
              THEN [c1 EXCEPT ![index(x2, y2)] = OrBit(@, C(dir) * 16)]
              ELSE c1
        c3 == IF InGrid(x3, y3)
              THEN [c2 EXCEPT ![index(x3, y3)] = OrBit(@, F(dir) * 16)]
              ELSE c2
    IN  IF ~HasBit(b[index(x, y)], dir) THEN b
        ELSE IF corner THEN c3 ELSE b

\* net.c 513-555: the loops over y, x and dir; k counts their iterations.
\* The barriers are an array of unsigned char.
RECURSIVE Corners(_, _)
Corners(b, k) ==
    IF k = 4 * NCells THEN b
    ELSE LET b1 == CornerDir(b, CellX(k \div 4), CellY(k \div 4),
                            Dirs[(k % 4) + 1])
         IN  CASE b1 \in [Cells -> 0 .. 255] -> Corners(b1, k + 1)

\* net.c 497-559: the barrier loop has ended; new_game returns the state
BarriersDone ==
    /\ pc = "barriers"
    /\ nbarriers = 0
    /\ candidates' = {}
    /\ barriers' = Corners(barriers, 0)
    /\ states' = <<game_state(tiles, barriers', completed, last_rotate_dir,
                              0)>>
    /\ pc' = "play"
    /\ UNCHANGED <<width, height, wrapping, prob, rs, tiles, completed,
                   last_rotate_dir, possibilities, nbarriers, pos,
                   unshuffled, button, mx, my, ret, nmoves, first,
                   iterations, fill,
                   decanting>>

(* ---------------------------------------------------------------------- *)
(* compute_active (net.c 600-648)                                         *)
(* ---------------------------------------------------------------------- *)
\* faulty variant of Connects: the neighbour is tested for d1, not F(d1)
Connects_NoFlip(t, b, active, x1, y1, d1) ==
    LET o == OFFSET(x1, y1, d1)
    IN  /\ HasBit(t[index(x1, y1)], d1)
        /\ HasBit(t[index(o[1], o[2])], d1)
        /\ ~HasBit(b[index(x1, y1)], d1)
        /\ active[index(o[1], o[2])] = 0

\* faulty variant of Connects: barriers are not looked at
Connects_NoBarrier(t, b, active, x1, y1, d1) ==
    LET o == OFFSET(x1, y1, d1)
    IN  /\ HasBit(t[index(x1, y1)], d1)
        /\ HasBit(t[index(o[1], o[2])], F(d1))
        /\ active[index(o[1], o[2])] = 0

\* net.c 634-637: may the flood fill step from (x1,y1) in direction d1
Connects(t, b, active, x1, y1, d1) ==
    LET o == OFFSET(x1, y1, d1)
    IN  /\ HasBit(t[index(x1, y1)], d1)
        /\ HasBit(t[index(o[1], o[2])], F(d1))
        /\ ~HasBit(b[index(x1, y1)], d1)
        /\ active[index(o[1], o[2])] = 0

\* net.c 624-641: the four directions of one examined square; st is
\* <<active, todo>>
RECURSIVE ExamineDirs(_, _, _, _, _, _)
ExamineDirs(t, b, st, x1, y1, k) ==
    IF k > 4 THEN st
    ELSE LET d1 == Dirs[k]
             o == OFFSET(x1, y1, d1)
         IN  IF Connects(t, b, st[1], x1, y1, d1)
             THEN ExamineDirs(t, b,
                      <<[st[1] EXCEPT ![index(o[1], o[2])] = ACTIVE],
                        st[2] \cup {<<o[1], o[2], 0>>}>>,
                      x1, y1, k + 1)
             ELSE ExamineDirs(t, b, st, x1, y1, k + 1)

\* net.c 617-642: the to-do loop; delpos234(todo, 0) is the least element
RECURSIVE ExamineTodo(_, _, _)
ExamineTodo(t, b, st) ==
    IF st[2] = {} THEN st[1]
    ELSE LET xyd == CHOOSE e \in st[2] : pos234(st[2], e) = 0
         IN  ExamineTodo(t, b,
                 ExamineDirs(t, b, <<st[1], st[2] \ {xyd}>>,
                             xyd[1], xyd[2], 1))

compute_active(t, b) ==
    ExamineTodo(t, b, <<[c \in Cells |-> IF c = index(cx, cy)
                                         THEN ACTIVE ELSE 0],
                        {<<cx, cy, 0>>}>>)

\* net.c 726-731: is every square marked active
AllActive(active) == \A c \in Cells : active[c] # 0

(* ---------------------------------------------------------------------- *)
(* make_move (net.c 653-741)                                              *)
(* ---------------------------------------------------------------------- *)
\* net.c 661-664
IsMouseButton(b) ==
    b = "LEFT_BUTTON" \/ b = "MIDDLE_BUTTON" \/ b = "RIGHT_BUTTON"

\* faulty variant of OnValidTile: negative x and y are not refused
OnValidTile_NoNegative(x, y) ==
    LET tx == CDiv(x, TILE_SIZE)
        ty == CDiv(y, TILE_SIZE)
    IN  /\ ~(tx >= width \/ ty >= height)
        /\ ~(\/ CMod(tx, TILE_SIZE) >= TILE_SIZE - TILE_BORDER
             \/ CMod(ty, TILE_SIZE) >= TILE_SIZE - TILE_BORDER)

\* net.c 669-679: x and y are already relative to the first tile
OnValidTile(x, y) ==
    LET tx == CDiv(x, TILE_SIZE)
        ty == CDiv(y, TILE_SIZE)
    IN  /\ ~(x < 0 \/ y < 0)
        /\ ~(tx >= width \/ ty >= height)
        /\ ~(\/ CMod(tx, TILE_SIZE) >= TILE_SIZE - TILE_BORDER
             \/ CMod(ty, TILE_SIZE) >= TILE_SIZE - TILE_BORDER)

\* faulty variant of Turn: the two buttons are exchanged
Turn_Swapped(orig, b) ==
    IF b = "LEFT_BUTTON" THEN [t |-> C(orig), dir |-> -1]
    ELSE [t |-> A(orig), dir |-> 1]

\* faulty variant of Turn: the right button turns anticlockwise too
Turn_AlwaysAnti(orig, b) == [t |-> A(orig), dir |-> 1]

\* faulty variant of Turn: the tile is turned a half turn
Turn_Half(orig, b) ==
    IF b = "LEFT_BUTTON" THEN [t |-> F(orig), dir |-> 1]
    ELSE [t |-> F(orig), dir |-> -1]

\* net.c 709-716
Turn(orig, b) ==
    IF b = "LEFT_BUTTON" THEN [t |-> A(orig), dir |-> 1]
    ELSE [t |-> C(orig), dir |-> -1]

\* faulty variant of CheckCompleted: the flag is cleared when the new state
\* is not complete
CheckCompleted_Clears(t, b, old) == AllActive(compute_active(t, b))

\* faulty variant of CheckCompleted: the flag is never set
CheckCompleted_Never(t, b, old) == old

\* net.c 718-738: the completed flag of the new state
CheckCompleted(t, b, old) ==
    IF AllActive(compute_active(t, b)) THEN TRUE ELSE old

\* faulty variant of dup_game: the new state uses the tiles array of the
\* old one instead of a copy of it
dup_game_Shallow(state, n) ==
    [game_state(state.tiles, state.barriers, state.completed,
                state.last_rotate_dir, n)
       EXCEPT !.tiles_at = state.tiles_at]

\* faulty variant of dup_game: the new barriers array is not filled in
dup_game_NoBarriers(state, n) ==
    game_state(state.tiles, Blank, state.completed, state.last_rotate_dir, n)

\* faulty variant of dup_game: the completed flag is not copied
dup_game_NoCompleted(state, n) ==
    game_state(state.tiles, state.barriers, FALSE, state.last_rotate_dir, n)

\* net.c 562-580: a new game_state, the n-th made, with arrays of its own
\* that hold copies of the arrays of state
dup_game(state, n) ==
    game_state(state.tiles, state.barriers, state.completed,
               state.last_rotate_dir, n)

\* state old as it reads once the arrays of state new have been written:
\* an array that both states use reads the same through both
Seen(old, new) ==
    [old EXCEPT
       !.tiles = IF old.tiles_at = new.tiles_at THEN new.tiles ELSE @,
       !.barriers = IF old.barriers_at = new.barriers_at
                    THEN new.barriers ELSE @]

\* faulty variant of IsLocked: the lock is not looked at
IsLocked_Never(t) == FALSE

\* net.c 701: tile(state, tx, ty) & LOCKED
IsLocked(t) == HasBit(t, LOCKED)

\* faulty variant of LockToggle: the lock is set, never cleared
LockToggle_SetOnly(new, i) ==
    [new EXCEPT !.tiles = [@ EXCEPT ![i] = OrBit(@, LOCKED)]]

\* faulty variant of LockToggle: the move goes on to the completion check
LockToggle_Completes(new, i) ==
    [new EXCEPT !.tiles = [@ EXCEPT ![i] = XorBit(@, LOCKED)],
                !.completed = CheckCompleted(new.tiles, new.barriers, @)]

\* net.c 691-695: tile(ret, tx, ty) ^= LOCKED
LockToggle(new, i) ==
    [new EXCEPT !.tiles = [@ EXCEPT ![i] = XorBit(@, LOCKED)]]

\* net.c 708-738: the tile is turned and the completion check made
Rotate(new, i, b) ==
    LET n == Turn(new.tiles[i], b)
        t2 == [new.tiles EXCEPT ![i] = n.t]
    IN  [new EXCEPT !.tiles = t2,
                    !.last_rotate_dir = n.dir,
                    !.completed = CheckCompleted(t2, new.barriers, @)]

\* net.c 653-741; n numbers the state that dup_game makes.  The result is
\* what is returned (NULL or a state) and the state the midend has next.
make_move(state, x0, y0, b, n) ==
    LET x == x0 - (WINDOW_OFFSET + TILE_BORDER)
        y == y0 - (WINDOW_OFFSET + TILE_BORDER)
        i == index(CDiv(x, TILE_SIZE), CDiv(y, TILE_SIZE))
        null == [ret |-> "NULL", new |-> state]
    IN  IF ~IsMouseButton(b) THEN null
        ELSE IF ~OnValidTile(x, y) THEN null
        ELSE IF b = "MIDDLE_BUTTON"
        THEN [ret |-> "STATE", new |-> LockToggle(dup_game(state, n), i)]
        ELSE IF IsLocked(state.tiles[i]) THEN null
        ELSE [ret |-> "STATE", new |-> Rotate(dup_game(state, n), i, b)]

\* the pixel in the middle of tile t of a row or column
Middle(t) == WINDOW_OFFSET + TILE_BORDER + TILE_SIZE * t + TILE_SIZE \div 2
\* the last pixel of tile t: its border padding
Padding(t) == WINDOW_OFFSET + TILE_BORDER + TILE_SIZE * t + TILE_SIZE - 1

\* net.c 1217-1232: a tile whose low four bits differ between the two
\* states gives time for its rotation to be animated
game_anim_length(oldstate, newstate) ==
    IF \E c \in Cells : \E d \in {R, U, L, D} :
           HasBit(oldstate.tiles[c], d) # HasBit(newstate.tiles[c], d)
    THEN "ROTATE_TIME"
    ELSE "0.0F"

\* the inputs tried: every button in the middle of every tile, and clicks
\* on the padding, left of, above, right of and below the grid
Clicks ==
    {<<Middle(CellX(c)), Middle(CellY(c)), b>> :
        c \in Cells, b \in {"LEFT_BUTTON", "MIDDLE_BUTTON", "RIGHT_BUTTON"}}
    \cup
    {<<xy[1], xy[2], b>> :
        xy \in {<<Padding(0), Middle(0)>>, <<Middle(0), Padding(0)>>,
                <<Padding(width - 1), Padding(height - 1)>>,
                <<WINDOW_OFFSET, Middle(0)>>, <<Middle(0), WINDOW_OFFSET>>,
                <<Middle(width), Middle(0)>>, <<Middle(0), Middle(height)>>,
                <<0, 0>>},
        b \in {"LEFT_BUTTON", "MIDDLE_BUTTON"}}
    \cup
    {<<Middle(0), Middle(0), "q">>, <<0, 0, "q">>}

\* the midend hands an input and its current state to make_move; a state
\* that is returned becomes the current state, behind the earlier ones
MakeMove ==
    /\ pc = "play"
    /\ nmoves < MaxMoves
    /\ \E in \in Clicks :
         LET m == make_move(states[Len(states)], in[1], in[2], in[3],
                            Len(states))
         IN  /\ mx' = in[1]
             /\ my' = in[2]
             /\ button' = in[3]
             /\ ret' = m.ret
             /\ tiles' = m.new.tiles
             /\ barriers' = m.new.barriers
             /\ completed' = m.new.completed
             /\ last_rotate_dir' = m.new.last_rotate_dir
             /\ states' = IF m.ret = "NULL" THEN states
                          ELSE Append([k \in DOMAIN states |->
                                           Seen(states[k], m.new)], m.new)
    /\ nmoves' = nmoves + 1
    /\ UNCHANGED <<width, height, wrapping, prob, rs, pc, possibilities,
                   candidates, nbarriers, pos, unshuffled, first,
                   iterations, fill,
                   decanting>>

\* the other fields of the state are left alone while game_redraw runs
NoGameChange ==
    UNCHANGED <<width, height, wrapping, prob, rs, tiles, barriers,
                completed, last_rotate_dir, possibilities, candidates,
                nbarriers, pos, unshuffled, button, mx, my, ret, nmoves,
                states, first, iterations, decanting>>

\* faulty variant of FillStart: the centre is put on the to-do list
\* without being marked active
FillStart_NoMark ==
    /\ pc = "play"
    /\ pc' = "fill"
    /\ fill' = [active |-> [c \in Cells |-> 0],
                todo |-> {<<cx, cy, 0>>},
                examined |-> 0,
                added |-> [c \in Cells |-> IF c = index(cx, cy)
                                           THEN 1 ELSE 0]]
    /\ NoGameChange

\* net.c 1160 with 605-615: game_redraw calls compute_active on the
\* current state; the centre is marked and put on the to-do list
FillStart ==
    /\ pc = "play"
    /\ pc' = "fill"
    /\ fill' = [active |-> [c \in Cells |-> IF c = index(cx, cy)
                                            THEN ACTIVE ELSE 0],
                todo |-> {<<cx, cy, 0>>},
                examined |-> 0,
                added |-> [c \in Cells |-> IF c = index(cx, cy)
                                           THEN 1 ELSE 0]]
    /\ NoGameChange

\* net.c 617-642: one iteration of the while loop: the least element of
\* the to-do list is taken off and its four directions are examined
FillStep ==
    /\ pc = "fill"
    /\ fill.todo # {}
    /\ LET xyd == CHOOSE e \in fill.todo : pos234(fill.todo, e) = 0
           rest == fill.todo \ {xyd}
           st == ExamineDirs(tiles, barriers, <<fill.active, rest>>,
                             xyd[1], xyd[2], 1)
       IN  fill' = [active |-> st[1],
                    todo |-> st[2],
                    examined |-> fill.examined + 1,
                    added |-> [c \in Cells |->
                                 IF <<CellX(c), CellY(c), 0>> \in st[2] \ rest
                                 THEN fill.added[c] + 1
                                 ELSE fill.added[c]]]
    /\ pc' = "fill"
    /\ NoGameChange

\* net.c 617, 643-647 and 1215: delpos234 finds nothing, the assertion is
\* made and the array is returned; game_redraw frees it when it is done
FillDone ==
    /\ pc = "fill"
    /\ fill.todo = {}
    /\ pc' = IF Cardinality(fill.todo) = 0 THEN "play" ELSE "abort"
    /\ fill' = << >>
    /\ NoGameChange

\* the barrier probabilities of Spec
Probs == {<<0, 1>>, <<1, 2>>, <<1, 1>>}

\* the barrier probabilities of SpecPair
Rates == {<<0, 1>>, <<1, 4>>, <<1, 2>>, <<3, 4>>, <<1, 1>>}

\* new_game is called once more with the seed and the parameters of the
\* call before, but for the barrier probability, which can be any in Rates
NewGameAgain ==
    /\ pc = "play"
    /\ nmoves = 0
    /\ first = << >>
    /\ first' = <<[prob |-> prob, tiles |-> tiles, barriers |-> barriers,
                   unshuffled |-> unshuffled]>>
    /\ prob' \in Rates
    /\ pc' = "new_game"
    /\ tiles' = << >>
    /\ barriers' = << >>
    /\ unshuffled' = << >>
    /\ states' = << >>
    /\ UNCHANGED <<width, height, wrapping, rs, completed, last_rotate_dir,
                   possibilities, candidates, nbarriers, pos, button, mx, my,
                   ret, nmoves,
                   iterations, fill,
                   decanting>>


Init ==
    /\ \/ InitParams(FreeMaxCells, FreeMaxCells, {-1})
       \/ InitParams(SeedMaxSide, SeedMaxCells, 0 .. (NSeeds - 1))
    /\ prob \in Probs
    /\ InitRest

Next ==
    \/ NewGame
    \/ GenStep
    \/ GenDone
    \/ Shuffle
    \/ CountBarriers
    \/ PlaceBarrier
    \/ BarriersDone
    \/ MakeMove

Spec == Init /\ [][Next]_vars

InitGen ==
    /\ InitParams(GenMaxCells, GenMaxCells, {-1})
    /\ prob = <<0, 1>>
    /\ InitRest

NextGen == NewGame \/ GenStep \/ GenDone

SpecGen == InitGen /\ [][NextGen]_vars

\* new_game is sequential code: while one of its steps can be taken, the
\* next one is taken
SpecGenFair == SpecGen /\ WF_vars(NextGen)

\* moves before game_redraw is looked at
FillMoves == 1

\* new_game, up to FillMoves moves, and the calls of compute_active that
\* game_redraw makes, step by step
NextFill ==
    \/ NewGame
    \/ GenStep
    \/ GenDone
    \/ Shuffle
    \/ CountBarriers
    \/ PlaceBarrier
    \/ BarriersDone
    \/ (nmoves < FillMoves /\ MakeMove)
    \/ FillStart
    \/ FillStep
    \/ FillDone

\* compute_active is sequential code: once called it runs on
SpecFill == Init /\ [][NextFill]_vars /\ WF_vars(FillStep \/ FillDone)

\* two calls of new_game with the same seed
InitPair ==
    /\ InitParams(SeedMaxSide, SeedMaxCells, 0 .. (NSeeds - 1))
    /\ prob \in Rates
    /\ InitRest

NextPair ==
    \/ NewGame
    \/ GenStep
    \/ GenDone
    \/ Shuffle
    \/ CountBarriers
    \/ PlaceBarrier
    \/ BarriersDone
    \/ NewGameAgain

SpecPair == InitPair /\ [][NextPair]_vars

\* barrier probabilities outside [0, 1]
BadRates == {<<-1, 2>>, <<3, 2>>}

\* new_game called with any parameters, valid or not
InitAny ==
    /\ width \in 0 .. SeedMaxSide
    /\ height \in 0 .. SeedMaxSide
    /\ width * height <= SeedMaxCells
    /\ wrapping \in BOOLEAN
    /\ rs \in [seed : 0 .. (NSeeds - 1), pos : {0}]
    /\ prob \in Rates \cup BadRates
    /\ InitRest

NextAny ==
    \/ NewGame
    \/ GenStep
    \/ GenDone
    \/ Shuffle
    \/ CountBarriers
    \/ PlaceBarrier
    \/ BarriersDone

SpecAny == InitAny /\ [][NextAny]_vars

(* ---------------------------------------------------------------------- *)
(* Notions the properties are stated with                                 *)
(* ---------------------------------------------------------------------- *)
DirSet == {R, U, L, D}
Mask(v) == v % 16
Neighbour(c, d) ==
    index(OFFSET(CellX(c), CellY(c), d)[1], OFFSET(CellX(c), CellY(c), d)[2])

\* the end of the generation loop, before the shuffle
Generated == pc = "shuffle" /\ pos = 0
\* the state new_game returned
Returned == pc = "play" /\ nmoves = 0

\* cells c and its neighbour in direction d point at each other
Joined(t, c, d) == HasBit(t[c], d) /\ HasBit(t[Neighbour(c, d)], F(d))

\* the half-edges of the connections of layout t
HalfEdges(t) == {cd \in Cells \X DirSet : Joined(t, cd[1], cd[2])}

\* the least set that contains S and is closed under the steps allowed
RECURSIVE Closure(_, _)
Closure(S, allowed) ==
    LET T == S \cup {Neighbour(cd[1], cd[2]) :
                       cd \in {e \in allowed : e[1] \in S}}
    IN  IF T = S THEN S ELSE Closure(T, allowed)

\* the cells connected to the centre in layout t, barriers ignored
FromCentre(t) == Closure({index(cx, cy)}, HalfEdges(t))

\* a step that no barrier blocks, on either side of the edge
OpenStep(t, b, c, d) ==
    /\ Joined(t, c, d)
    /\ ~HasBit(b[c], d)
    /\ ~HasBit(b[Neighbour(c, d)], F(d))

\* the cells reachable from the centre by open steps
Reachable(t, b) ==
    Closure({index(cx, cy)},
            {cd \in Cells \X DirSet : OpenStep(t, b, cd[1], cd[2])})

\* the cells compute_active marks
Marked(t, b) == {c \in Cells : compute_active(t, b)[c] # 0}

Solved(t, b) == AllActive(compute_active(t, b))

\* mask m2 is mask m1 turned by some number of quarter turns
IsTurnOf(m1, m2) ==
    \E k \in 0 .. 3 :
        \A j \in 0 .. 3 :
            HasBit(m1, Dirs[j + 1]) <=> HasBit(m2, Dirs[((j + k) % 4) + 1])

\* mask m2 is mask m1 turned by k quarter turns anticlockwise, that is from
\* R to U to L to D to R
IsTurnBy(m1, m2, k) ==
    /\ m2 \in 0 .. 15
    /\ \A j \in 0 .. 3 :
          HasBit(m1, Dirs[j + 1]) <=> HasBit(m2, Dirs[((j + k) % 4) + 1])

\* the mask combinations, obtainable by turning each tile, that solve the
\* puzzle
Solutions ==
    {m \in {[c \in Cells |-> ROT(Mask(tiles[c]), r[c])] :
               r \in [Cells -> 0 .. 3]} : Solved(m, barriers)}

\* the pixel is on tile border padding / outside the grid
OnPadding(px, py) ==
    \/ CMod(px - (WINDOW_OFFSET + TILE_BORDER), TILE_SIZE)
          >= TILE_SIZE - TILE_BORDER
    \/ CMod(py - (WINDOW_OFFSET + TILE_BORDER), TILE_SIZE)
          >= TILE_SIZE - TILE_BORDER

Outside(px, py) ==
    \/ px < WINDOW_OFFSET + TILE_BORDER
    \/ py < WINDOW_OFFSET + TILE_BORDER
    \/ px >= WINDOW_OFFSET + TILE_BORDER + TILE_SIZE * width
    \/ py >= WINDOW_OFFSET + TILE_BORDER + TILE_SIZE * height

RotateButton(b) == b = "LEFT_BUTTON" \/ b = "RIGHT_BUTTON"

\* the cell that holds a pixel inside the grid
ClickedCell(px, py) ==
    index((px - (WINDOW_OFFSET + TILE_BORDER)) \div TILE_SIZE,
          (py - (WINDOW_OFFSET + TILE_BORDER)) \div TILE_SIZE)

\* the step is a call of make_move with a click on a cell
CellClick == nmoves' = nmoves + 1 /\ ~Outside(mx', my')

\* the last step was a call of make_move with a click inside a cell, off
\* its padding
CellClicked == pc = "play" /\ nmoves > 0 /\ ~Outside(mx, my)
               /\ ~OnPadding(mx, my)

\* make_move on state st with button b in the middle of cell c; a state it
\* makes is the n-th
ClickOn(st, c, b, n) ==
    make_move(st, Middle(CellX(c)), Middle(CellY(c)), b, n)

\* two states with the same tiles, barriers, completed and last_rotate_dir
SameGame(s1, s2) ==
    /\ s1.tiles = s2.tiles
    /\ s1.barriers = s2.barriers
    /\ s1.completed = s2.completed
    /\ s1.last_rotate_dir = s2.last_rotate_dir

\* from state s0: a lock toggle on cell c, a rotate of c with button b, a
\* second lock toggle, the rotate again.  The first rotate is refused and
\* leaves the tile as it is, the second toggle gives s0 back and the second
\* rotate is accepted.
LockRoundTrip(s0, c, b) ==
    LET n == Len(states)
        t1 == ClickOn(s0, c, "MIDDLE_BUTTON", n)
        r1 == ClickOn(t1.new, c, b, n + 1)
        t2 == ClickOn(r1.new, c, "MIDDLE_BUTTON", n + 1)
        r2 == ClickOn(t2.new, c, b, n + 2)
    IN  /\ t1.ret = "STATE"
        /\ r1.ret = "NULL"
        /\ r1.new.tiles = t1.new.tiles
        /\ Mask(r1.new.tiles[c]) = Mask(s0.tiles[c])
        /\ t2.ret = "STATE"
        /\ SameGame(t2.new, s0)
        /\ r2.ret = "STATE"

\* k clicks of button b in the middle of cell c, one after the other, from
\* state st; the states made are numbered from n.  The result of the last
\* click, or of the first one that is refused.
RECURSIVE Repeat(_, _, _, _, _)
Repeat(st, c, b, k, n) ==
    LET m == ClickOn(st, c, b, n)
    IN  IF k = 1 \/ m.ret = "NULL" THEN m
        ELSE Repeat(m.new, c, b, k - 1, n + 1)

\* probability p1 is less than probability p2
Less(p1, p2) == p1[1] * p2[2] < p2[1] * p1[2]

\* the barrier edges of a barriers array, as half-edges
BarrierEdges(b) == {cd \in Cells \X DirSet : HasBit(b[cd[1]], cd[2])}

\* new_game has returned for the second time
BothReturned == Returned /\ Len(first) = 1

\* the current state and the one before it
Now == states[Len(states)]
Before == states[Len(states) - 1]

\* the parameters are not a valid configuration
BadSize == width < 1 \/ height < 1 \/ (width = 1 /\ height = 1)
BadRate == Less(prob, <<0, 1>>) \/ Less(<<1, 1>>, prob)
InvalidParams == BadSize \/ BadRate

\* some tile has been given a connection
TilePlaced == \E c \in DOMAIN tiles : tiles[c] # 0

(* ---------------------------------------------------------------------- *)
(* Properties                                                             *)
(* ---------------------------------------------------------------------- *)

\* C1: at the end of the generation loop the layout is a spanning tree:
\* every cell is connected to the centre and there are exactly
\* width*height - 1 connections (so no cycle).
C1_SpanningTree ==
    Generated =>
        /\ FromCentre(tiles) = Cells
        /\ Cardinality(HalfEdges(tiles)) = 2 * (NCells - 1)

C1_Witness ==
    /\ Generated
    /\ width = 3 /\ height = 3 /\ wrapping
    /\ \E c \in Cells : COUNT(tiles[c]) = 3
    /\ FromCentre(tiles) = Cells

\* C2: once barriers are being placed, and in every state afterwards, no
\* barrier lies on a half-edge that carries a connection of the unshuffled
\* layout, and the unshuffled orientation with the barriers chosen so far
\* is solved: the flood fill from the centre marks every cell.
C2_SolvableWithBarriers ==
    (pc = "barriers" \/ pc = "play") =>
        /\ \A c \in Cells : \A d \in DirSet :
              HasBit(barriers[c], d) => ~HasBit(unshuffled[c], d)
        /\ Solved(unshuffled, barriers)

C2_Witness ==
    /\ Returned
    /\ wrapping /\ NCells >= 4 /\ prob = <<1, 1>>
    /\ \E c \in Cells : Mask(barriers[c]) # 0
    /\ Solved(unshuffled, barriers)

\* C3 (as claimed): exactly one combination of turned tiles solves the
\* puzzle new_game returned.
C3_UniqueSolution == Returned => Cardinality(Solutions) = 1

\* C3 (amended): at least one combination of turned tiles solves the puzzle
\* new_game returned, namely the unshuffled one: every tile is a turn of
\* its unshuffled mask, and the unshuffled masks are solved.
C3_SolutionExists ==
    Returned =>
        /\ \A c \in Cells : IsTurnOf(unshuffled[c], Mask(tiles[c]))
        /\ Solved(unshuffled, barriers)

C3_Witness ==
    /\ Returned
    /\ NCells = 2
    /\ tiles # unshuffled
    /\ Cardinality(Solutions) > 1

\* C4: at the end of the generation loop (no shuffle, no random barrier)
\* compute_active marks every cell.
C4_AllActiveWhenGenerated ==
    Generated => AllActive(compute_active(tiles, barriers))

C4_Witness ==
    /\ Generated
    /\ ~wrapping /\ width = 3 /\ height = 3
    /\ Marked(tiles, barriers) = Cells

\* C5: no tile is ever a full cross: during generation, after the shuffle
\* and after any make_move the four connection bits are never all set.
C5_NoFullCross ==
    \A c \in DOMAIN tiles : Mask(tiles[c]) # 15

C5_Witness ==
    /\ pc = "play" /\ ret = "STATE" /\ RotateButton(button)
    /\ \E c \in Cells : COUNT(tiles[c]) = 3

\* C6: compute_active marks exactly the cells reachable from the centre by
\* steps along mutual connections that no barrier blocks on either side.
C6_MarksReachable ==
    (pc = "generate" \/ pc = "shuffle" \/ pc = "barriers" \/ pc = "play") =>
        Marked(tiles, barriers) = Reachable(tiles, barriers)

C6_Witness ==
    /\ pc = "play"
    /\ \E c \in Cells : \E d \in DirSet :
          /\ Joined(tiles, c, d)
          /\ HasBit(barriers[c], d)
          /\ c \in Marked(tiles, barriers)
          /\ Neighbour(c, d) \notin Marked(tiles, barriers)

\* C7 (as claimed): in every game state completed is true exactly when the
\* flood fill marks every cell.
C7_CompletedIffSolved ==
    pc = "play" => (completed <=> Solved(tiles, barriers))

\* C7 (amended): completed is false in the state new_game returns, and a
\* make_move leaves it true exactly when it was true before or the move
\* was an accepted rotation after which the flood fill marks every cell.
C7_CompletedSticky ==
    [][pc' = "play" =>
         (completed' <=>
            /\ pc = "play"
            /\ \/ completed
               \/ /\ ret' = "STATE"
                  /\ RotateButton(button')
                  /\ Solved(tiles', barriers'))]_vars

C7_Witness ==
    /\ pc = "play"
    /\ completed
    /\ ~Solved(tiles, barriers)

\* C8: a rotation that produces a state in which the flood fill marks every
\* cell produces a completed state; so does a rotation that puts every tile
\* back in its unshuffled orientation.
C8_RotateCompletes ==
    (pc = "play" /\ ret = "STATE" /\ RotateButton(button)) =>
        /\ Solved(tiles, barriers) => completed
        /\ (\A c \in Cells : Mask(tiles[c]) = unshuffled[c]) => completed

C8_Witness ==
    /\ pc = "play" /\ ret = "STATE" /\ RotateButton(button)
    /\ \A c \in Cells : Mask(tiles[c]) = unshuffled[c]
    /\ completed

\* C9: a click on tile border padding is a no-op: make_move returns NULL
\* and no tile is rotated or lock-toggled.
C9_PaddingNoOp ==
    [][(nmoves' = nmoves + 1 /\ OnPadding(mx', my')) =>
         (ret' = "NULL" /\ tiles' = tiles)]_vars

\* C10: a click outside the grid, and any input that is not the left,
\* middle or right button, is a no-op: make_move returns NULL and the state
\* is unchanged.
C10_OutsideNoOp ==
    [][(nmoves' = nmoves + 1 /\
          (Outside(mx', my') \/ ~(RotateButton(button') \/
                                  button' = "MIDDLE_BUTTON"))) =>
         (ret' = "NULL" /\ UNCHANGED <<tiles, barriers, completed,
                                       last_rotate_dir>>)]_vars

C10_Witness ==
    /\ pc = "play" /\ nmoves > 0
    /\ Outside(mx, my)
    /\ button = "LEFT_BUTTON"
    /\ ret = "NULL"

\* C11: a left or right click on a locked cell is a no-op: make_move
\* returns NULL and the tiles (masks and lock flags), the barriers,
\* completed, last_rotate_dir and the states the midend holds are unchanged.
C11_LockedRotateNoOp ==
    [][(/\ CellClick
        /\ RotateButton(button')
        /\ HasBit(tiles[ClickedCell(mx', my')], LOCKED)) =>
         (ret' = "NULL" /\ UNCHANGED <<tiles, barriers, completed,
                                       last_rotate_dir, states>>)]_vars

C11_Witness ==
    /\ CellClicked
    /\ RotateButton(button)
    /\ HasBit(tiles[ClickedCell(mx, my)], LOCKED)
    /\ ret = "NULL"

\* C12 (as claimed): for every cell of every state of the game, after one
\* lock toggle a rotate of the cell is refused with the mask unchanged, and
\* after a second lock toggle the state is the one before the first toggle
\* and the same rotate is accepted.
C12_LockRoundTripAnyCell ==
    (pc = "play" /\ nmoves <= RoundTripDepth) =>
        \A c \in Cells : \A b \in {"LEFT_BUTTON", "RIGHT_BUTTON"} :
            LockRoundTrip(Now, c, b)

\* C12 (amended): the same, for every cell that is not locked.
C12_LockRoundTripUnlocked ==
    (pc = "play" /\ nmoves <= RoundTripDepth) =>
        \A c \in Cells : \A b \in {"LEFT_BUTTON", "RIGHT_BUTTON"} :
            ~HasBit(Now.tiles[c], LOCKED) => LockRoundTrip(Now, c, b)

\* a lock toggle of an unlocked cell, then a refused rotate of that cell
C12_Witness ==
    /\ CellClicked
    /\ nmoves = 2
    /\ Len(states) = 2
    /\ RotateButton(button)
    /\ ret = "NULL"
    /\ ~HasBit(states[1].tiles[ClickedCell(mx, my)], LOCKED)
    /\ HasBit(tiles[ClickedCell(mx, my)], LOCKED)
    /\ LockRoundTrip(states[1], ClickedCell(mx, my), button)

\* C13: an accepted middle click changes only the LOCKED bit of the clicked
\* cell: that bit flips; every connection mask, every other lock, the
\* barriers, the set of cells compute_active marks, completed and
\* last_rotate_dir are in the result what they were in the input state.
C13_ToggleOnlyLock ==
    [][(CellClick /\ button' = "MIDDLE_BUTTON" /\ ret' = "STATE") =>
         (/\ tiles' = [tiles EXCEPT
                         ![ClickedCell(mx', my')] = XorBit(@, LOCKED)]
          /\ barriers' = barriers
          /\ Marked(tiles', barriers') = Marked(tiles, barriers)
          /\ completed' = completed
          /\ last_rotate_dir' = last_rotate_dir)]_vars

\* a lock toggle in a state where every cell is active and completed is
\* not set
C13_Witness ==
    /\ CellClicked
    /\ button = "MIDDLE_BUTTON"
    /\ ret = "STATE"
    /\ HasBit(tiles[ClickedCell(mx, my)], LOCKED)
    /\ Solved(tiles, barriers)
    /\ ~completed

\* C14: make_move does not modify the state it is given, nor any state made
\* before: after every call each of them reads as it did before (tiles,
\* barriers, completed, last_rotate_dir).  A refused call adds no state; an
\* accepted one adds one state, whose tiles and barriers arrays are arrays
\* of no earlier state.
C14_InputNotModified ==
    [][nmoves' = nmoves + 1 =>
         (/\ \A k \in 1 .. Len(states) : states'[k] = states[k]
          /\ ret' = "NULL" => states' = states
          /\ ret' = "STATE" =>
                /\ Len(states') = Len(states) + 1
                /\ \A k \in 1 .. Len(states) :
                      /\ states'[Len(states')].tiles_at # states[k].tiles_at
                      /\ states'[Len(states')].barriers_at #
                            states[k].barriers_at)]_vars

\* two accepted moves; the two states they were given still read as they
\* did, each different from the state made from it
C14_Witness ==
    /\ pc = "play"
    /\ nmoves = 2
    /\ Len(states) = 3
    /\ states[1].tiles # states[2].tiles
    /\ states[2].tiles # states[3].tiles
    /\ states[3].tiles = tiles

\* C15: for every 4-bit mask, four turns by the left button, or four by
\* the right button, give the mask back, and so does a turn by the left
\* button followed by one by the right button.  In the state new_game
\* returns, four left clicks on a cell, four right clicks, and a left click
\* followed by a right click are all accepted and give the tiles back.
C15_FourTurnsRestore ==
    /\ \A m \in 0 .. 15 : \A b \in {"LEFT_BUTTON", "RIGHT_BUTTON"} :
          /\ Turn(Turn(Turn(Turn(m, b).t, b).t, b).t, b).t = m
          /\ Turn(Turn(m, "LEFT_BUTTON").t, "RIGHT_BUTTON").t = m
    /\ Returned =>
          \A c \in Cells :
              /\ \A b \in {"LEFT_BUTTON", "RIGHT_BUTTON"} :
                    /\ Repeat(Now, c, b, 4, 1).ret = "STATE"
                    /\ Repeat(Now, c, b, 4, 1).new.tiles = tiles
              /\ ClickOn(ClickOn(Now, c, "LEFT_BUTTON", 1).new, c,
                         "RIGHT_BUTTON", 2).ret = "STATE"
              /\ ClickOn(ClickOn(Now, c, "LEFT_BUTTON", 1).new, c,
                         "RIGHT_BUTTON", 2).new.tiles = tiles

\* a left click that turns a cell, then a right click on the same cell:
\* the tiles are those new_game returned
C15_Witness ==
    /\ CellClicked
    /\ nmoves = 2
    /\ Len(states) = 3
    /\ button = "RIGHT_BUTTON"
    /\ states[2].last_rotate_dir = 1
    /\ states[2].tiles[ClickedCell(mx, my)] =
          A(states[1].tiles[ClickedCell(mx, my)])
    /\ states[2].tiles # states[1].tiles
    /\ tiles = states[1].tiles

\* C16: an accepted left click turns the clicked cell's mask one quarter
\* turn anticlockwise (R to U to L to D to R) and sets last_rotate_dir to
\* +1; an accepted right click turns it one quarter turn clockwise and sets
\* last_rotate_dir to -1; every other tile and the barriers are unchanged.
C16_RotateDirection ==
    [][(CellClick /\ RotateButton(button') /\ ret' = "STATE") =>
         (/\ \A c \in Cells :
                c # ClickedCell(mx', my') => tiles'[c] = tiles[c]
          /\ barriers' = barriers
          /\ button' = "LEFT_BUTTON" =>
                /\ IsTurnBy(tiles[ClickedCell(mx', my')],
                            tiles'[ClickedCell(mx', my')], 1)
                /\ last_rotate_dir' = 1
          /\ button' = "RIGHT_BUTTON" =>
                /\ IsTurnBy(tiles[ClickedCell(mx', my')],
                            tiles'[ClickedCell(mx', my')], 3)
                /\ last_rotate_dir' = -1)]_vars

\* an accepted right click on a cell whose mask is not symmetric
C16_Witness ==
    /\ CellClicked
    /\ button = "RIGHT_BUTTON"
    /\ ret = "STATE"
    /\ last_rotate_dir = -1
    /\ Before.last_rotate_dir = 1
    /\ ~IsTurnBy(Before.tiles[ClickedCell(mx, my)],
                 tiles[ClickedCell(mx, my)], 1)
    /\ IsTurnBy(Before.tiles[ClickedCell(mx, my)],
                tiles[ClickedCell(mx, my)], 3)

\* C17: of two calls of new_game with the same dimensions, wrapping flag
\* and seed, the one with the greater barrier probability places a superset
\* of the barrier edges of the other.
C17_BarrierSuperset ==
    BothReturned =>
        /\ Less(first[1].prob, prob) =>
              BarrierEdges(first[1].barriers) \subseteq BarrierEdges(barriers)
        /\ Less(prob, first[1].prob) =>
              BarrierEdges(barriers) \subseteq BarrierEdges(first[1].barriers)

\* probabilities 1/4 and 3/4 on a wrapping grid: some barriers, then more
C17_Witness ==
    /\ BothReturned
    /\ wrapping
    /\ first[1].prob = <<1, 4>>
    /\ prob = <<3, 4>>
    /\ BarrierEdges(first[1].barriers) # {}
    /\ BarrierEdges(first[1].barriers) # BarrierEdges(barriers)
    /\ BarrierEdges(first[1].barriers) \subseteq BarrierEdges(barriers)

\* C18: two calls of new_game with the same dimensions, wrapping flag and
\* seed return the same tiles and have the same unshuffled layout, whatever
\* their two barrier probabilities.
C18_SameGridAnyRate ==
    BothReturned =>
        /\ first[1].unshuffled = unshuffled
        /\ first[1].tiles = tiles

C18_Witness ==
    /\ BothReturned
    /\ first[1].prob # prob
    /\ first[1].barriers # barriers
    /\ tiles # unshuffled
    /\ first[1].tiles = tiles

\* C19 (as claimed): two calls of new_game with the same dimensions,
\* wrapping flag and seed return the same tiles and the same barriers.
C19_SamePuzzleAnyRate ==
    BothReturned =>
        /\ first[1].tiles = tiles
        /\ first[1].barriers = barriers

\* C19 (amended): two calls of new_game with the same dimensions, wrapping
\* flag, barrier probability and seed return the same tiles and the same
\* barriers.
C19_SamePuzzleSameRate ==
    (BothReturned /\ first[1].prob = prob) =>
        /\ first[1].tiles = tiles
        /\ first[1].barriers = barriers
        /\ first[1].unshuffled = unshuffled

C19_Witness ==
    /\ BothReturned
    /\ first[1].prob = prob
    /\ prob = <<1, 2>>
    /\ wrapping
    /\ BarrierEdges(barriers) # {}
    /\ tiles # unshuffled
    /\ first[1].barriers = barriers

\* C20: barriers never change during play: in every state of the game,
\* after any make_move calls, the barriers array (edge bits and corner
\* bits) of the current state, and of every state the midend holds, is the
\* one of the state new_game returned.
C20_BarriersFixed ==
    pc = "play" =>
        /\ barriers = states[1].barriers
        /\ \A k \in 1 .. Len(states) : states[k].barriers = states[1].barriers

\* a lock toggle and a rotate, in a game with edge and corner bits set
C20_Witness ==
    /\ pc = "play"
    /\ nmoves = 2
    /\ Len(states) = 3
    /\ \E c \in Cells : Mask(barriers[c]) # 0 /\ barriers[c] >= 16
    /\ \E c \in Cells : HasBit(tiles[c], LOCKED)
    /\ \E c \in Cells : Mask(tiles[c]) # Mask(states[1].tiles[c])
    /\ barriers = states[1].barriers

(* C21: every invalid configuration is rejected before generation begins:
   with a width or height below 1, a 1x1 grid or a barrier probability
   outside [0, 1], new_game places no tile, consumes no random draw and
   never returns a game. *)
C21_RejectedBeforeGeneration ==
    InvalidParams => /\ ~TilePlaced
                     /\ rs.pos = 0
                     /\ pc # "play"

\* the cell a possibility leads into
Target(xyd) == index(OFFSET(xyd[1], xyd[2], xyd[3])[1],
                     OFFSET(xyd[1], xyd[2], xyd[3])[2])

(* C22: the generator's assertion never fails: the generation loop never
   aborts and, while it runs, every possibility in the frontier leads
   into a cell whose mask is still empty, so whichever one is picked
   the cell it moves into is unused. *)
C22_TargetStillEmpty ==
    /\ pc # "abort"
    /\ pc = "generate" => \A xyd \in possibilities : tiles[Target(xyd)] = 0

\* a wrapping 3x3 generation in which two used cells are neighbours
\* without being connected (the possibility between them was removed)
\* and the frontier is not empty
C22_Witness ==
    /\ pc = "generate"
    /\ width = 3 /\ height = 3 /\ wrapping
    /\ possibilities # {}
    /\ \E c \in Cells, d \in DirSet :
         /\ tiles[c] # 0
         /\ tiles[Neighbour(c, d)] # 0
         /\ ~HasBit(tiles[c], d)

\* the cells the generator has used: the centre, where it starts, and
\* every cell it has moved into
Used == {index(cx, cy)} \cup {c \in Cells : tiles[c] # 0}

(* C23: the generation loop terminates for every sequence of random
   picks, after exactly width*height - 1 iterations: each iteration moves
   into exactly one cell whose mask was empty (the centre counts as used
   from the start), the loop ends, and when the frontier is empty no cell
   has an empty mask. *)
C23_LoopTerminates ==
    /\ [](pc = "generate" => /\ iterations = Cardinality(Used) - 1
                             /\ iterations <= NCells - 1)
    /\ [](pc = "generate" /\ possibilities = {} =>
             \A c \in Cells : tiles[c] # 0)
    /\ [](Generated => iterations = NCells - 1)
    /\ [][iterations' = iterations + 1 =>
             \E c \in Cells : /\ tiles[c] = 0
                              /\ c \notin Used
                              /\ Used' = Used \cup {c}]_vars
    /\ <>(pc = "shuffle")

\* a 3x3 grid without wrapping, generated in eight iterations
C23_Witness ==
    /\ Generated
    /\ width = 3 /\ height = 3 /\ ~wrapping
    /\ iterations = 8

\* the generation loop is about to start
LoopStart == pc = "generate" /\ iterations = 0

\* the edges leaving the centre in the directions dirs
CentreEdges(dirs) == {<<cx, cy, d>> : d \in dirs}

\* the directions in which the centre has a cell next to it in the grid,
\* not counting the cells across the grid boundary
Inward == {d \in DirSet : InGrid(cx + X(d), cy + Y(d))}

(* C24 as claimed: the initial frontier of a wrapping grid holds all four
   edges leaving the centre; only in a grid that does not wrap are the
   edges that would leave the grid omitted. *)
C24_WrappingAllFour ==
    LoopStart =>
        possibilities = CentreEdges(IF wrapping THEN DirSet ELSE Inward)

(* C24 amended: in both topologies the initial frontier holds the edges
   from the centre to the cells next to it inside the grid, and never an
   edge across the grid boundary; these are all four edges, to four
   distinct cells, exactly when width and height are at least 3. *)
C24_InwardEdgesOnly ==
    LoopStart =>
        /\ possibilities = CentreEdges(Inward)
        /\ (width >= 3 /\ height >= 3) <=> Cardinality(possibilities) = 4
        /\ Cardinality(possibilities) = 4 =>
               Cardinality({Target(xyd) : xyd \in possibilities}) = 4

\* a wrapping grid two cells wide, whose initial frontier lacks the edge
\* from the centre to the right, across the boundary
C24_Witness ==
    /\ LoopStart
    /\ wrapping /\ width = 2 /\ height = 3
    /\ <<cx, cy, R>> \notin possibilities
    /\ possibilities = CentreEdges({U, L, D})

\* in layout t every connection has its other half: a cell points in a
\* direction exactly when the cell there points back
Reciprocal(t) ==
    \A c \in Cells, d \in DirSet :
        HasBit(t[c], d) <=> HasBit(t[Neighbour(c, d)], F(d))

\* direction d leads from cell c across the boundary of the grid
Outward(c, d) == ~InGrid(CellX(c) + X(d), CellY(c) + Y(d))

\* in layout t no cell points across the boundary of the grid
NoneOutward(t) ==
    \A c \in Cells, d \in DirSet : Outward(c, d) => ~HasBit(t[c], d)

(* C25: before and after every iteration of the generation loop, and in
   the finished layout before the shuffle, the connections are
   reciprocal: cell c has bit d exactly when the neighbour of c in
   direction d (with wrap-around) has the opposite bit; in a grid that
   does not wrap no bit points across the grid boundary. *)
C25_ReciprocalConnections ==
    (pc = "generate" \/ Generated) =>
        /\ Reciprocal(tiles)
        /\ ~wrapping => NoneOutward(tiles)

\* a finished wrapping layout with a T-piece and a connection across
\* the boundary
C25_Witness ==
    /\ Generated
    /\ wrapping
    /\ \E c \in Cells : COUNT(tiles[c]) = 3
    /\ \E c \in Cells, d \in DirSet :
          /\ Outward(c, d)
          /\ HasBit(tiles[c], d)
          /\ Neighbour(c, d) # c

\* an edge is named by the cell on its left or upper side and R or D, as
\* in the list of barrier locations; the edges of the grid are those
\* between two cells, which in a wrapping grid includes the edges across
\* the boundary
GridEdges == {cd \in Cells \X {R, D} : wrapping \/ ~Outward(cd[1], cd[2])}

\* the edges new_game could choose from: those that carry no connection
\* of the layout as generated
CandidateEdges == {cd \in GridEdges : ~HasBit(unshuffled[cd[1]], cd[2])}

\* the edges that carry a barrier new_game placed
PlacedEdges == {cd \in GridEdges : HasBit(barriers[cd[1]], cd[2])}

\* p * n rounded to the nearest integer, and rounded down, for p >= 0
Rounded(p, n) == (2 * p[1] * n + p[2]) \div (2 * p[2])
RoundedDown(p, n) == (p[1] * n) \div p[2]

(* C26 as claimed: the number of barrier edges in the game new_game
   returns is round(barrier_probability * number of candidate edges), and
   the edges are distinct candidates. *)
C26_BarrierCountRounded ==
    Returned =>
        /\ PlacedEdges \subseteq CandidateEdges
        /\ Cardinality(PlacedEdges) =
               Rounded(prob, Cardinality(CandidateEdges))

(* C26 amended: the number of barrier edges in the game new_game returns
   is barrier_probability * number of candidate edges rounded down, and
   the edges are distinct candidates: each of that many picks places a
   barrier on a candidate edge that had none. *)
C26_BarrierCountTruncated ==
    /\ Returned =>
        /\ PlacedEdges \subseteq CandidateEdges
        /\ Cardinality(PlacedEdges) =
               RoundedDown(prob, Cardinality(CandidateEdges))
    /\ pc = "barriers" =>
        /\ PlacedEdges \subseteq CandidateEdges
        /\ Cardinality(PlacedEdges) + nbarriers =
               RoundedDown(prob, Cardinality(CandidateEdges))
        /\ {<<index(xyd[1], xyd[2]), xyd[3]>> : xyd \in candidates} =
               CandidateEdges \ PlacedEdges

\* a returned game where rounding down and rounding to nearest differ
\* and some barrier was placed
C26_Witness ==
    /\ Returned
    /\ prob = <<3, 4>>
    /\ PlacedEdges # {}
    /\ Rounded(prob, Cardinality(CandidateEdges)) #
           Cardinality(PlacedEdges)

\* the game state has its barriers array (new_game has got past its
\* parameter checks)
HasBarriers == pc \in {"generate", "shuffle", "barriers", "play"}

\* every cell on the border of the grid has, in barriers array b, the
\* barrier that faces out of the grid
BorderClosed(b) ==
    \A c \in Cells :
        /\ CellY(c) = 0 => HasBit(b[c], U)
        /\ CellY(c) = height - 1 => HasBit(b[c], D)
        /\ CellX(c) = 0 => HasBit(b[c], L)
        /\ CellX(c) = width - 1 => HasBit(b[c], R)

(* C27: in a game that does not wrap, in every state from the moment
   new_game has set up the barriers array, and in every state the midend
   holds, each cell on the grid border has its outward barrier bit set:
   U on row 0, D on the last row, L on column 0, R on the last column. *)
C27_BorderBarriers ==
    (~wrapping /\ HasBarriers) =>
        /\ BorderClosed(barriers)
        /\ \A k \in DOMAIN states : BorderClosed(states[k].barriers)

\* a 3x3 game that does not wrap, after barriers were placed and two
\* moves were accepted
C27_Witness ==
    /\ pc = "play"
    /\ ~wrapping /\ width = 3 /\ height = 3
    /\ Len(states) = 3
    /\ PlacedEdges # {}

\* the cells the flood fill would mark if it could only move between
\* cells that are next to each other inside the grid
ReachableInside(t, b) ==
    Closure({index(cx, cy)},
            {cd \in Cells \X DirSet : /\ OpenStep(t, b, cd[1], cd[2])
                                      /\ ~Outward(cd[1], cd[2])})

\* the tiles have their orientation for play
Oriented == pc = "barriers" \/ pc = "play"

(* C28: in a game that does not wrap the flood fill never activates a
   cell across the grid boundary: whatever the orientations of the
   tiles, the cells it marks are those that can be reached from the
   centre through edges between cells next to each other inside the
   grid, and for no edge that joins a border cell to the cell on the
   opposite side does the test of the fill succeed. *)
C28_NoFillAcrossBoundary ==
    (~wrapping /\ Oriented) =>
        /\ Marked(tiles, barriers) = ReachableInside(tiles, barriers)
        /\ \A c \in Cells, d \in DirSet :
               Outward(c, d) =>
                   ~Connects(tiles, barriers, Blank, CellX(c), CellY(c), d)

\* a game that does not wrap in which an active border cell and the cell
\* on the opposite side point at each other across the boundary, and the
\* cell on the opposite side is not active
C28_Witness ==
    /\ pc = "play"
    /\ ~wrapping
    /\ \E c \in Cells, d \in DirSet :
          /\ Outward(c, d)
          /\ Neighbour(c, d) # c
          /\ Joined(tiles, c, d)
          /\ c \in Marked(tiles, barriers)
          /\ Neighbour(c, d) \notin Marked(tiles, barriers)

\* in barriers array b every barrier has its other half
Symmetric(b) ==
    \A c \in Cells, d \in DirSet :
        HasBit(b[c], d) <=> HasBit(b[Neighbour(c, d)], F(d))

(* C29: barrier bits are symmetric in every state: cell c has barrier
   bit d exactly when the neighbour of c in direction d (with
   wrap-around) has the opposite bit.  So the test of the flood fill,
   which looks only at the barrier bit of the cell it comes from, lets
   through exactly the connections with a barrier on neither side. *)
C29_BarriersSymmetric ==
    HasBarriers =>
        /\ Symmetric(barriers)
        /\ \A k \in DOMAIN states : Symmetric(states[k].barriers)
        /\ Oriented =>
             \A c \in Cells, d \in DirSet :
                 (Joined(tiles, c, d) /\ ~HasBit(barriers[c], d)) <=>
                     OpenStep(tiles, barriers, c, d)

\* a wrapping game with a barrier placed across the boundary, between
\* two cells that point at each other, after a move
C29_Witness ==
    /\ pc = "play"
    /\ wrapping
    /\ nmoves > 0
    /\ \E c \in Cells, d \in DirSet :
          /\ Outward(c, d)
          /\ Neighbour(c, d) # c
          /\ HasBit(barriers[c], d)
          /\ Joined(tiles, c, d)

(* C30: the completed flag is monotonic: a step from a state of play in
   which completed is set leads to a state in which it is set; from
   every such state every further click on a cell, with any button,
   gives a state in which it is set; and a middle click (lock toggle)
   on any cell, in any state of play, gives a state with the completed
   flag it was given. *)
C30_CompletedMonotonic ==
    /\ [][(pc = "play" /\ completed) => completed']_vars
    /\ [](pc = "play" =>
            \A c \in Cells :
                /\ ClickOn(Now, c, "MIDDLE_BUTTON", Len(states)).new.completed
                       = completed
                /\ completed =>
                     \A b \in {"LEFT_BUTTON", "RIGHT_BUTTON"} :
                         ClickOn(Now, c, b, Len(states)).new.completed)

\* a completed game in which an accepted rotation was made after the
\* completion, which left some cell inactive
C30_Witness ==
    /\ pc = "play"
    /\ Len(states) = 3
    /\ Before.completed
    /\ completed
    /\ RotateButton(button)
    /\ ret = "STATE"
    /\ ~Solved(tiles, barriers)

(* C31: every accepted rotation visibly changes the tile: in every state
   of play the connection mask of each cell is neither 0 nor 0xF, and
   the state an accepted left or right click returns differs from the
   state it was given in the mask of the clicked cell, so that
   game_anim_length of the two states is the rotation time. *)
C31_RotationChangesTile ==
    pc = "play" =>
        /\ \A c \in Cells : Mask(tiles[c]) \notin {0, 15}
        /\ (nmoves > 0 /\ ret = "STATE" /\ RotateButton(button)) =>
              /\ Mask(Now.tiles[ClickedCell(mx, my)]) #
                     Mask(Before.tiles[ClickedCell(mx, my)])
              /\ game_anim_length(Before, Now) = "ROTATE_TIME"

\* an accepted rotation of a straight tile, which a half turn would leave
\* as it was
C31_Witness ==
    /\ pc = "play"
    /\ nmoves > 0
    /\ ret = "STATE"
    /\ RotateButton(button)
    /\ Mask(Before.tiles[ClickedCell(mx, my)]) \in {5, 10}
    /\ Mask(tiles[ClickedCell(mx, my)]) \in {5, 10}

\* compute_active is running
Filling == pc = "fill"

(* C32: compute_active terminates on every game state: each square is
   added to the to-do list at most once (only squares not yet active are
   added, and every square on the list is active), so at most
   width*height squares are examined; the loop ends, with the to-do
   list empty, the assertion after it holding, and the active array the
   one the flood fill gives. *)
C32_FillTerminates ==
    /\ [](Filling =>
            /\ \A c \in Cells : fill.added[c] <= 1
            /\ \A c \in Cells : fill.added[c] = 1 <=> fill.active[c] # 0
            /\ \A e \in fill.todo : fill.active[index(e[1], e[2])] # 0
            /\ fill.examined + Cardinality(fill.todo) =
                   Cardinality({c \in Cells : fill.added[c] = 1})
            /\ fill.examined <= NCells)
    /\ [][(Filling /\ pc' # "fill") =>
             /\ pc' = "play"
             /\ fill.todo = {}
             /\ fill.active = compute_active(tiles, barriers)]_vars
    /\ Filling ~> pc = "play"

\* compute_active is about to end on a 3x3 game, after a move, having
\* examined more than one square and fewer than all
C32_Witness ==
    /\ Filling
    /\ width = 3 /\ height = 3
    /\ nmoves = 1
    /\ fill.todo = {}
    /\ fill.examined > 1
    /\ fill.examined < NCells

(* ---------------------------------------------------------------------- *)
(* decanting.c (src/unnamed/part_000)                                     *)
(* ---------------------------------------------------------------------- *)
MAX_LAYERS == 8
MAX_COLOURS == 12
MAX_TUBES == 16
MAX_DESC == MAX_TUBES * (MAX_LAYERS + 1)

\* TILE_SIZE of decanting.c (net.c has a TILE_SIZE of its own)
DECANTING_TILE_SIZE == 20
TUBE_BORDER == 2
TUBE_SPACING == 10
MARGIN_H == 20
MARGIN_V == 30
WRAP_TUBES == 5

\* the tile size the game asks for: TILE_SIZE + TUBE_BORDER * 2
preferred_tilesize == DECANTING_TILE_SIZE + TUBE_BORDER * 2

HEX == <<"0", "1", "2", "3", "4", "5", "6", "7", "8", "9",
         "a", "b", "c", "d", "e", "f">>

\* the value of a hexadecimal digit (token - '0', token - 'a' + 10,
\* token - 'A' + 10), -1 for any other character
HexValue(token) ==
    IF \E k \in 1 .. 16 : HEX[k] = token
    THEN (CHOOSE k \in 1 .. 16 : HEX[k] = token) - 1
    ELSE IF token = "A" THEN 10
    ELSE IF token = "B" THEN 11
    ELSE IF token = "C" THEN 12
    ELSE IF token = "D" THEN 13
    ELSE IF token = "E" THEN 14
    ELSE IF token = "F" THEN 15
    ELSE -1

\* a cell of memory that was allocated and never written
Unset == -128

\* the parameters of the games played: the smallest game
DecantParams ==
    {[ncolours |-> 2, nlayers |-> 2, ntubes |-> 3]}

\* the largest number of tubes and of layers of the games played
LargestTubes ==
    CHOOSE n \in {p.ntubes : p \in DecantParams} :
        \A p \in DecantParams : p.ntubes <= n

LargestLayers ==
    CHOOSE n \in {p.nlayers : p \in DecantParams} :
        \A p \in DecantParams : p.nlayers <= n

\* the part of the array tubes (MAX_TUBES rows of MAX_LAYERS layers) that
\* these games can reach: the rows of the tubes and the two rows after
\* them, the layers of a tube and the layer after them
Tubes == 0 .. (LargestTubes + 1)
Layers == 0 .. LargestLayers

\* snew(game_state): nothing is initialised
Fresh == [tube \in Tubes |-> [layer \in Layers |-> Unset]]

validate_params(p) ==
    IF p.ncolours < 2 THEN "Colours must be at least 2"
    ELSE IF p.nlayers < 2 THEN "Layers must be at least 2"
    ELSE IF p.ntubes < 3 THEN "Tubes must be at least 3"
    ELSE IF p.ncolours > MAX_COLOURS THEN "Too many colours"
    ELSE IF p.nlayers > MAX_LAYERS THEN "Too many layers"
    ELSE IF p.ntubes > MAX_TUBES THEN "Too many tubes"
    ELSE IF p.ntubes <= p.ncolours
    THEN "There must be more tubes than colours"
    ELSE "NULL"

\* the character desc[c] of a C string (c counts from 0); the string ends
\* with a NUL
CharAt(d, c) == IF c < Len(d) THEN d[c + 1] ELSE "NUL"

\* game_desc: the layers of one tube, from layer nlayers-1 down to 0,
\* those that are -1 left out
RECURSIVE DescTube(_, _, _)
DescTube(t, tube, layer) ==
    IF layer < 0 THEN << >>
    ELSE (IF t[tube][layer] # -1 THEN <<HEX[t[tube][layer] + 1]>>
          ELSE << >>)
         \o DescTube(t, tube, layer - 1)

\* game_desc: tube after tube, each followed by a comma
RECURSIVE DescTubes(_, _, _)
DescTubes(p, t, tube) ==
    IF tube >= p.ntubes THEN << >>
    ELSE DescTube(t, tube, p.nlayers - 1) \o <<",">>
         \o DescTubes(p, t, tube + 1)

\* game_desc: the last comma is overwritten by the NUL
game_desc(p, t) ==
    LET buf == DescTubes(p, t, 0)
    IN  SubSeq(buf, 1, Len(buf) - 1)

\* new_game: the do-while loop over the description.  c is the index of
\* the next character, t the tubes array
RECURSIVE new_game_loop(_, _, _, _, _, _)
new_game_loop(p, d, c, tube, layer, t) ==
    LET token == CharAt(d, c)
        sep == token = "," \/ token = "NUL"
        t1 == IF sep
              THEN [t EXCEPT ![tube] =
                      [l \in Layers |-> IF l >= layer /\ l < p.nlayers
                                        THEN -1 ELSE @[l]]]
              ELSE t
        tube1 == IF sep THEN tube + 1 ELSE tube
        layer1 == IF sep THEN 0 ELSE layer
        digit == layer1 < p.nlayers /\ HexValue(token) >= 0
        t2 == IF digit
              THEN [t1 EXCEPT ![tube1][layer1] = HexValue(token)]
              ELSE t1
        layer2 == IF digit THEN layer1 + 1 ELSE layer1
    IN  IF token # "NUL" /\ c + 1 <= MAX_DESC
        THEN new_game_loop(p, d, c + 1, tube1, layer2, t2)
        ELSE [tubes |-> t2, tube |-> tube1]

\* new_game: the tubes the description does not mention are empty
new_game(p, d) ==
    LET r == new_game_loop(p, d, 0, 0, 0, Fresh)
    IN  [solved |-> FALSE,
         tubes |-> [tube \in Tubes |->
                      IF tube >= r.tube /\ tube < p.ntubes
                      THEN [l \in Layers |-> IF l < p.nlayers THEN -1
                                             ELSE r.tubes[tube][l]]
                      ELSE r.tubes[tube]]]


\* validate_desc: the while loop.  c is the index of the next character,
\* amounts the counter array, used the indices at which the loop has
\* accessed it; g is the value an entry holds that was never written
\* (the array is a local variable, initialised only below ncolours)
RECURSIVE validate_desc_loop(_, _, _, _, _, _, _, _)
validate_desc_loop(p, d, g, c, tube, layer, amounts, used) ==
    LET token == CharAt(d, c)
        ftype == HexValue(token)
        old == IF ftype \in DOMAIN amounts /\ amounts[ftype] # Unset
               THEN amounts[ftype] ELSE g
        amounts1 == IF ftype \in DOMAIN amounts
                    THEN [amounts EXCEPT ![ftype] = old + 1]
                    ELSE amounts
    IN  IF ~(c < MAX_DESC /\ token # "NUL")
        THEN [ret |-> "", amounts |-> amounts, used |-> used]
        ELSE IF token = ","
        THEN IF tube + 1 >= p.ntubes
             THEN [ret |-> "Too many tubes", amounts |-> amounts,
                   used |-> used]
             ELSE validate_desc_loop(p, d, g, c + 1, tube + 1, 0, amounts,
                                     used)
        ELSE IF layer >= p.nlayers
        THEN [ret |-> "Too many layers in tube", amounts |-> amounts,
              used |-> used]
        ELSE IF ftype < 0
        THEN [ret |-> "Invalid character", amounts |-> amounts,
              used |-> used]
        ELSE IF ftype > p.ncolours
        THEN [ret |-> "Invalid color", amounts |-> amounts, used |-> used]
        ELSE IF old + 1 > p.nlayers
        THEN [ret |-> "Too much fluid of the same type",
              amounts |-> amounts1, used |-> used \cup {ftype}]
        ELSE validate_desc_loop(p, d, g, c + 1, tube, layer + 1, amounts1,
                                used \cup {ftype})

\* validate_desc: what it returns, and the indices at which it has
\* accessed the counter array
validate_desc(p, d, g) ==
    LET r == validate_desc_loop(p, d, g, 0, 0, 0,
                 [ftype \in 0 .. (MAX_COLOURS - 1) |->
                     IF ftype < p.ncolours THEN 0 ELSE Unset],
                 {})
    IN  IF r.ret # "" THEN [ret |-> r.ret, used |-> r.used]
        ELSE IF \E ftype \in 0 .. (p.ncolours - 1) :
                    r.amounts[ftype] < p.nlayers
        THEN [ret |-> "Not enough fluid of at least one type",
              used |-> r.used \cup (0 .. (p.ncolours - 1))]
        ELSE [ret |-> "NULL", used |-> r.used \cup (0 .. (p.ncolours - 1))]

\* dup_game: solved and the layers below nlayers of the tubes below
\* ntubes are copied into a newly allocated state
decanting_dup_game(p, st) ==
    [solved |-> st.solved,
     tubes |-> [tube \in Tubes |-> [layer \in Layers |->
                  IF tube < p.ntubes /\ layer < p.nlayers
                  THEN st.tubes[tube][layer] ELSE Unset]]]

\* check_solved: the flag of a state; t is its tubes array
RECURSIVE SameAbove(_, _, _, _, _)
SameAbove(p, t, tube, layer, color) ==
    IF layer >= p.nlayers THEN TRUE
    ELSE IF t[tube][layer] # color THEN FALSE
    ELSE SameAbove(p, t, tube, layer + 1, color)

\* faulty variant of check_solved: an empty tube is not skipped
check_solved_NoEmpty(p, st) ==
    IF st.solved THEN st
    ELSE IF \A tube \in 0 .. (p.ntubes - 1) :
               SameAbove(p, st.tubes, tube, 1, st.tubes[tube][0])
               /\ st.tubes[tube][0] # -1
    THEN [st EXCEPT !.solved = TRUE]
    ELSE st

check_solved(p, st) ==
    IF st.solved THEN st
    ELSE IF \A tube \in 0 .. (p.ntubes - 1) :
               \/ st.tubes[tube][0] = -1
               \/ SameAbove(p, st.tubes, tube, 1, st.tubes[tube][0])
    THEN [st EXCEPT !.solved = TRUE]
    ELSE st

\* C integer division of non-negative numbers is \div; get_tube_at
get_tube_at(p, tilesize, x, y) ==
    LET tube == (x - MARGIN_H) \div (tilesize + TUBE_SPACING)
        tx == MARGIN_H + tube * (tilesize + TUBE_SPACING)
        y1 == y - (MARGIN_V + tilesize * (p.nlayers + 1))
        wrap == (p.ntubes + 1) \div 2
    IN  IF x <= MARGIN_H \/ y <= MARGIN_V THEN -1
        ELSE IF x - tx > tilesize THEN -1
        ELSE IF y > MARGIN_V + tilesize * (p.nlayers + 1)
        THEN IF p.ntubes > WRAP_TUBES
             THEN IF y1 > tilesize * (p.nlayers + 1) THEN -1
                  ELSE tube + wrap
             ELSE -1
        ELSE tube

\* game_compute_size: <<x, y>>
game_compute_size(p, tilesize) ==
    LET tubes_x == IF p.ntubes > WRAP_TUBES THEN (p.ntubes + 1) \div 2
                   ELSE p.ntubes
        tubes_y == IF p.ntubes > WRAP_TUBES THEN 2 ELSE 1
    IN  <<MARGIN_H * 2 + tubes_x * tilesize + (tubes_x - 1) * TUBE_SPACING,
          MARGIN_V * 2 + tubes_y * tilesize * (p.nlayers + 1)
              + (tubes_y - 1) * TUBE_SPACING>>

\* get_tube_top: <<color, number, empty>>; the search from the top for a
\* layer that is not -1, then the count of layers of its colour below it
RECURSIVE TopLayer(_, _, _)
TopLayer(t, tube, layer) ==
    IF layer < 0 THEN -1
    ELSE IF t[tube][layer] # -1 THEN layer
    ELSE TopLayer(t, tube, layer - 1)

RECURSIVE SameBelow(_, _, _, _)
SameBelow(t, tube, layer, color) ==
    IF layer < 0 THEN 0
    ELSE IF t[tube][layer] = color
    THEN 1 + SameBelow(t, tube, layer - 1, color)
    ELSE 0

get_tube_top(p, t, tube) ==
    IF t[tube][0] = -1 THEN <<-1, 0, p.nlayers>>
    ELSE LET layer == TopLayer(t, tube, p.nlayers - 1)
         IN  <<t[tube][layer],
               1 + SameBelow(t, tube, layer - 1, t[tube][layer]),
               p.nlayers - layer - 1>>

min(a, b) == IF a < b THEN a ELSE b

can_pour(p, t, tube_from, tube_to) ==
    IF t[tube_from][0] = -1 THEN 0
    ELSE IF t[tube_to][0] = -1 THEN get_tube_top(p, t, tube_from)[2]
    ELSE IF t[tube_to][p.nlayers - 1] # -1 THEN 0
    ELSE IF get_tube_top(p, t, tube_from)[1] = get_tube_top(p, t, tube_to)[1]
    THEN min(get_tube_top(p, t, tube_from)[2],
             get_tube_top(p, t, tube_to)[3])
    ELSE 0


\* execute_move, first loop: the topmost layer of the source tube that is
\* not -1, layer 0 when there is none
RECURSIVE SourceTop(_, _, _)
SourceTop(t, from, layer) ==
    IF layer > 0 /\ t[from][layer] = -1 THEN SourceTop(t, from, layer - 1)
    ELSE layer

\* execute_move on the move "p from to number": what it returns, the new
\* state, and the cells <<tube, layer>> of the new state it has written.
\* A layer index of MAX_LAYERS or more is outside the row of its tube and
\* is recorded in written only
execute_move(p, st, from, to, number) ==
    LET t == st.tubes
        slayer == SourceTop(t, from, p.nlayers - 1)
        color == t[from][slayer]
        taken == {layer \in (slayer - number + 1) .. slayer : TRUE}
        dlayer == TopLayer(t, to, p.nlayers - 1)
        given == {layer \in (dlayer + 1) .. (dlayer + number) : TRUE}
        dup == decanting_dup_game(p, st)
        t1 == [dup.tubes EXCEPT ![from] =
                  [layer \in Layers |->
                      IF layer \in taken THEN -1 ELSE dup.tubes[from][layer]]]
        t2 == [t1 EXCEPT ![to] =
                  [layer \in Layers |->
                      IF layer \in given THEN color ELSE t1[to][layer]]]
    IN  IF slayer < number - 1
        THEN [ret |-> "NULL", new |-> st, written |-> {}]
        ELSE IF p.nlayers - dlayer < number
        THEN [ret |-> "NULL", new |-> st,
              written |-> {<<from, layer>> : layer \in taken}]
        ELSE [ret |-> "STATE",
              new |-> check_solved(p, [solved |-> dup.solved, tubes |-> t2]),
              written |-> {<<from, layer>> : layer \in taken}
                          \cup {<<to, layer>> : layer \in given}]

\* interpret_move: kind is "NULL", "UI" (UI_UPDATE) or "MOVE" (the string
\* "p from to number"); selected is ui->selected afterwards
interpret_move(p, st, selected, tilesize, x, y, b) ==
    LET tube == get_tube_at(p, tilesize, x, y)
        none == [kind |-> "NULL", from |-> -1, to |-> -1, number |-> 0,
                 selected |-> selected]
    IN  IF st.solved THEN none
        ELSE IF b # "LEFT_BUTTON" THEN none
        ELSE IF tube = -1 THEN none
        ELSE IF tube = selected
        THEN [none EXCEPT !.kind = "UI", !.selected = -1]
        ELSE IF selected # -1
        THEN IF can_pour(p, st.tubes, selected, tube) # 0
             THEN [kind |-> "MOVE", from |-> selected, to |-> tube,
                   number |-> can_pour(p, st.tubes, selected, tube),
                   selected |-> -1]
             ELSE none
        ELSE [none EXCEPT !.kind = "UI", !.selected = tube]

\* ---- the decanting state machine ----
MaxClicks == 4

\* the characters of a description of a game with ncolours colours
Alphabet(p) == {HEX[k + 1] : k \in 0 .. (p.ncolours - 1)} \cup {","}

\* the longest description validate_desc accepts: nlayers layers of every
\* colour and ntubes - 1 commas
DescLen(p) == p.ncolours * p.nlayers + p.ntubes - 1

\* the strings of up to n characters
Strings(S, n) == UNION {[1 .. k -> S] : k \in 0 .. n}

\* what a cell of memory that was never written can hold
GarbageCells == {-1, 0, 1}

\* the state as the code reads it: the cells that were never written hold
\* what the allocation left there, g[layer] in layer layer of every row
Resolve(st, g) ==
    [st EXCEPT !.tubes = [tube \in Tubes |-> [layer \in Layers |->
        IF st.tubes[tube][layer] = Unset /\ layer \in DOMAIN g
        THEN g[layer] ELSE st.tubes[tube][layer]]]]

\* the net game is not running
NoNet ==
    /\ width = 0 /\ height = 0 /\ wrapping = FALSE /\ prob = <<0, 1>>
    /\ rs = [seed |-> -1, pos |-> 0]
    /\ pc = "off"
    /\ tiles = << >> /\ barriers = << >> /\ completed = FALSE
    /\ last_rotate_dir = 1 /\ possibilities = {} /\ candidates = {}
    /\ nbarriers = 0 /\ pos = 0 /\ unshuffled = << >> /\ button = "NONE"
    /\ mx = 0 /\ my = 0 /\ ret = "NONE" /\ nmoves = 0 /\ states = << >>
    /\ first = << >> /\ iterations = 0 /\ fill = << >>

\* a game of decanting is started from a description validate_desc
\* accepts: new_game, new_ui, and the drawstate with the preferred tile size
InitDecant ==
    /\ NoNet
    /\ params \in DecantParams
    /\ validate_params(params) = "NULL"
    /\ desc \in Strings(Alphabet(params), DescLen(params))
    /\ validate_desc(params, desc, 0).ret = "NULL"
    /\ decant = new_game(params, desc)
    /\ start = decant
    /\ ui = [selected |-> -1]
    /\ ds = [tilesize |-> preferred_tilesize]
    /\ dpc = "play"
    /\ last = [kind |-> "NONE", from |-> -1, to |-> -1, number |-> 0,
               ret |-> "NULL", written |-> {}, source |-> << >>,
               dest |-> << >>, tube |-> -1]
    /\ nclicks = 0

\* the pitch of the columns of tubes
Pitch == ds.tilesize + TUBE_SPACING

\* the positions clicked: in every column of tubes and right of the last
\* one, in the left margin and between two tubes; in the top margin, in
\* the first row and below it; all of them inside the window
ClickXs ==
    {x \in {MARGIN_H + k * Pitch + TUBE_SPACING \div 2 : k \in 0 .. params.ntubes}
           \cup {MARGIN_H \div 2, MARGIN_H + Pitch - TUBE_SPACING \div 2} :
        x < game_compute_size(params, ds.tilesize)[1]}

ClickYs ==
    {y \in {MARGIN_V \div 2, MARGIN_V + ds.tilesize,
            MARGIN_V + (params.nlayers + 2) * ds.tilesize} :
        y < game_compute_size(params, ds.tilesize)[2]}

\* what the rows that were never written can hold when can_pour looks at
\* the tubes from and to: only a row at or after ntubes was never written,
\* and when neither from nor to is such a row what it holds is not read
Garbage(from, to) ==
    IF from # -1 /\ to # -1 /\ from # to
       /\ (from >= params.ntubes \/ to >= params.ntubes)
    THEN [0 .. (params.nlayers - 1) -> GarbageCells]
    ELSE {[layer \in 0 .. (params.nlayers - 1) |-> -1]}

\* one mouse click: interpret_move, and execute_move on the move it gives
Click ==
    /\ dpc = "play"
    /\ nclicks < MaxClicks
    /\ \E x \in ClickXs, y \in ClickYs, b \in {"LEFT_BUTTON", "RIGHT_BUTTON"} :
       \E g \in Garbage(ui.selected, get_tube_at(params, ds.tilesize, x, y)) :
          LET cur == Resolve(decant, g)
              m == interpret_move(params, cur, ui.selected, ds.tilesize,
                                  x, y, b)
              r == execute_move(params, cur, m.from, m.to, m.number)
          IN  /\ ui' = [selected |-> m.selected]
              /\ IF m.kind = "MOVE"
                 THEN /\ decant' = IF r.ret = "STATE" THEN r.new ELSE decant
                      /\ last' = [kind |-> "MOVE", from |-> m.from,
                                  to |-> m.to, number |-> m.number,
                                  ret |-> r.ret, written |-> r.written,
                                  source |-> cur.tubes[m.from],
                                  dest |-> cur.tubes[m.to],
                                  tube |-> get_tube_at(params, ds.tilesize,
                                                       x, y)]
                 ELSE /\ decant' = decant
                      /\ last' = [kind |-> m.kind, from |-> -1, to |-> -1,
                                  number |-> 0, ret |-> "NULL",
                                  written |-> {}, source |-> << >>,
                                  dest |-> << >>,
                                  tube |-> get_tube_at(params, ds.tilesize,
                                                       x, y)]
    /\ nclicks' = nclicks + 1
    /\ UNCHANGED <<params, desc, ds, dpc, start>>
    /\ UNCHANGED net

NextDecant == Click

SpecDecant == InitDecant /\ [][NextDecant]_vars


\* ---- execute_move on any move ----
MaxPours == 2

\* the number of layers of a row of the array that are -1
EmptyLayers(p, row) == Cardinality({layer \in 0 .. (p.nlayers - 1) :
                                       row[layer] = -1})

\* execute_move is given a move "p from to number" between two tubes of
\* the game, whatever the number
Pour ==
    /\ dpc = "play"
    /\ nclicks < MaxPours
    /\ \E from \in 0 .. (params.ntubes - 1), to \in 0 .. (params.ntubes - 1),
          number \in 0 .. (params.nlayers + 1) :
          LET r == execute_move(params, decant, from, to, number)
          IN  /\ decant' = IF r.ret = "STATE" THEN r.new ELSE decant
              /\ last' = [kind |-> "MOVE", from |-> from, to |-> to,
                          number |-> number, ret |-> r.ret,
                          written |-> r.written,
                          source |-> decant.tubes[from],
                          dest |-> decant.tubes[to], tube |-> -1]
    /\ nclicks' = nclicks + 1
    /\ UNCHANGED <<params, desc, ds, dpc, start, ui>>
    /\ UNCHANGED net

NextPour == Pour

SpecPour == InitDecant /\ [][NextPour]_vars

\* C33: a move whose number is greater than the number of empty layers of
\* the destination tube is refused (execute_move returns NULL) and no layer
\* at an index of nlayers or more is written
C33_OverfullRejected ==
    (last.kind = "MOVE" /\ last.number > EmptyLayers(params, last.dest))
        => /\ last.ret = "NULL"
           /\ \A w \in last.written : w[2] < params.nlayers


\* the number of layers of a colour in the tubes of a state
Amount(p, st, color) ==
    Cardinality({tl \in (0 .. (p.ntubes - 1)) \X (0 .. (p.nlayers - 1)) :
                    st.tubes[tl[1]][tl[2]] = color})

\* C34: after any sequence of moves that interpret_move produces and
\* execute_move applies, the tubes hold as many layers of every colour as
\* the state new_game built
C34_LiquidConserved ==
    \A color \in 0 .. (MAX_COLOURS - 1) :
        Amount(params, decant, color) = Amount(params, start, color)


\* a row of the array is packed from the bottom: no layer that is not -1
\* lies above a layer that is -1
PackedRow(p, row) ==
    \A layer \in 1 .. (p.nlayers - 1) :
        row[layer] # -1 => row[layer - 1] # -1

\* the last click has made a pour
Poured == last.kind = "MOVE" /\ last.ret = "STATE"

\* where the last pour has landed: the lowest layer written in the
\* destination
Landing == CHOOSE layer \in {w[2] : w \in {v \in last.written :
                                               v[1] = last.to}} :
               \A w \in last.written : w[1] = last.to => layer <= w[2]

\* the colour the last pour has moved: the top layer of the source
Moved == last.source[SourceTop([tube \in {last.from} |-> last.source],
                               last.from, params.nlayers - 1)]

\* the last pour has landed on an empty tube or on a top layer of its own
\* colour, inside the destination tube
LandedWell ==
    /\ last.to \in 0 .. (params.ntubes - 1)
    /\ \A w \in last.written : w[2] < params.nlayers
    /\ \A layer \in Landing .. (params.nlayers - 1) : last.dest[layer] = -1
    /\ \/ Landing = 0
       \/ last.dest[Landing - 1] = Moved

\* C35: every tube is packed from the bottom, and a pour lands on an empty
\* tube or on a top layer of the colour poured
C35_PackedFromBottom ==
    /\ \A tube \in 0 .. (params.ntubes - 1) :
           PackedRow(params, decant.tubes[tube])
    /\ Poured => LandedWell

\* the tubes are packed, and the pours whose destination is one of the
\* ntubes tubes of the game have landed well
PackedAndLandedInTubes ==
    /\ \A tube \in 0 .. (params.ntubes - 1) :
           PackedRow(params, decant.tubes[tube])
    /\ (Poured /\ last.to < params.ntubes) => LandedWell


\* every tube is empty or holds nlayers layers of a single colour
Uniform(p, st) ==
    \A tube \in 0 .. (p.ntubes - 1) :
        \/ \A layer \in 0 .. (p.nlayers - 1) : st.tubes[tube][layer] = -1
        \/ /\ st.tubes[tube][0] # -1
           /\ \A layer \in 0 .. (p.nlayers - 1) :
                  st.tubes[tube][layer] = st.tubes[tube][0]

\* C36: the state a move gives has solved set exactly when every tube is
\* empty or full of a single colour; in a state with solved set
\* interpret_move returns NULL whatever the input, and the state and the
\* selection stay as they are
C36_SolvedExactlyWhenUniform ==
    /\ [][(nclicks' # nclicks /\ Poured')
              => (decant'.solved <=> Uniform(params, decant'))]_vars
    /\ [](decant # start => (decant.solved <=> Uniform(params, decant)))
    /\ [][(nclicks' # nclicks /\ decant.solved)
              => (last'.kind = "NULL" /\ decant' = decant /\ ui' = ui)]_vars

\* a move has solved the game, and a click made after that was refused
C36_Witness ==
    /\ decant.solved
    /\ Uniform(params, decant)
    /\ decant # start
    /\ last.kind = "NULL"
    /\ last.tube \in 0 .. (params.ntubes - 1)


\* ---- validate_desc on any description ----
MaxDescLen == 7

\* the characters of the descriptions tried: the colours of the game, the
\* digit ncolours, a digit above it, and the comma
DescChars(p) == {HEX[k + 1] : k \in 0 .. (p.ncolours + 1)} \cup {","}

\* what an entry of the counter array that was never written can hold
GarbageAmounts == {0, 2}

InitDesc ==
    /\ NoNet
    /\ params \in DecantParams
    /\ desc \in Strings(DescChars(params), MaxDescLen)
    /\ decant = << >>
    /\ start = << >>
    /\ ui = << >>
    /\ ds = << >>
    /\ dpc = "desc"
    /\ last = [kind |-> "NONE", ret |-> "NULL", used |-> {}]
    /\ nclicks = 0

\* the midend has the description validated
Validate ==
    /\ dpc = "desc"
    /\ \E g \in GarbageAmounts :
          last' = [kind |-> "DESC", ret |-> validate_desc(params, desc, g).ret,
                   used |-> validate_desc(params, desc, g).used]
    /\ dpc' = "validated"
    /\ UNCHANGED <<params, desc, decant, ui, ds, start, nclicks>>
    /\ UNCHANGED net

NextDesc == Validate

SpecDesc == InitDesc /\ [][NextDesc]_vars

\* the description has a digit that is not a colour of the game
BadDigit ==
    \E k \in 1 .. Len(desc) : HexValue(desc[k]) >= params.ncolours

\* C37: a description with a colour digit of ncolours or more is refused,
\* and the counter array is never accessed at an index of ncolours or more
C37_BadColourRejected ==
    last.kind = "DESC"
        => /\ BadDigit => last.ret # "NULL"
           /\ \A ftype \in last.used : ftype < params.ncolours


\* ---- game_desc and new_game ----
\* the state of the game is written out by game_desc and a game is started
\* from the string by new_game; start keeps the state written out
Describe ==
    /\ dpc = "play"
    /\ desc' = game_desc(params, decant.tubes)
    /\ decant' = new_game(params, game_desc(params, decant.tubes))
    /\ start' = decant
    /\ dpc' = "described"
    /\ UNCHANGED <<params, ui, ds, last, nclicks>>
    /\ UNCHANGED net

NextDescribe == Click \/ Describe

SpecDescribe == InitDecant /\ [][NextDescribe]_vars

\* two states have the same contents in every layer of every tube
SameTubes(p, s1, s2) ==
    \A tube \in 0 .. (p.ntubes - 1) : \A layer \in 0 .. (p.nlayers - 1) :
        s1.tubes[tube][layer] = s2.tubes[tube][layer]

\* C38: new_game applied to the string game_desc gives for a state whose
\* tubes are packed from the bottom builds the same tubes, layer for layer
C38_DescRoundTrip ==
    (dpc = "described"
     /\ \A tube \in 0 .. (params.ntubes - 1) :
            PackedRow(params, start.tubes[tube]))
        => SameTubes(params, decant, start)


\* ---- get_tube_at on every position of the window ----
\* games with one row of tubes and with two rows of tubes, of an even and
\* of an odd number of tubes
PixelParams ==
    {[ncolours |-> 2, nlayers |-> 2, ntubes |-> ntubes] :
        ntubes \in {3, 5, 6, 7}}

InitPixel ==
    /\ NoNet
    /\ params \in PixelParams
    /\ validate_params(params) = "NULL"
    /\ desc = << >>
    /\ decant = << >>
    /\ start = << >>
    /\ ui = << >>
    /\ ds = [tilesize |-> preferred_tilesize]
    /\ dpc = "window"
    /\ last = [kind |-> "NONE", x |-> 0, y |-> 0, tube |-> -1]
    /\ nclicks = 0

\* the window is game_compute_size wide and high; get_tube_at is asked for
\* the tube at one of its positions
Probe ==
    /\ dpc = "window"
    /\ \E x \in 0 .. (game_compute_size(params, ds.tilesize)[1] - 1),
          y \in 0 .. (game_compute_size(params, ds.tilesize)[2] - 1) :
          last' = [kind |-> "PIXEL", x |-> x, y |-> y,
                   tube |-> get_tube_at(params, ds.tilesize, x, y)]
    /\ dpc' = "probed"
    /\ UNCHANGED <<params, desc, decant, ui, ds, start, nclicks>>
    /\ UNCHANGED net

NextPixel == Probe

SpecPixel == InitPixel /\ [][NextPixel]_vars

\* C39: at every position of the window get_tube_at returns -1 or the
\* index of one of the ntubes tubes
C39_TubeInRange ==
    last.kind = "PIXEL"
        => (last.tube = -1 \/ last.tube \in 0 .. (params.ntubes - 1))

=============================================================================
